---------------------------- MODULE Spec2Model ----------------------------
(***************************************************************************)
(* A model of the MC-Pricer option pricing library: the Monte Carlo        *)
(* engine (src/src/MonteCarloEngine.cpp), the Black-Scholes pricer and its *)
(* Newton-Raphson implied-volatility search (src/src/BlackScholes.cpp),    *)
(* the option payoffs (src/src/Option.cpp), the volatility predictors      *)
(* (src/src/VolatilityPredictor.cpp) and the legacy pricer under           *)
(* src/src/cpp (Option, EuropeanOption, MonteCarloEngine).                 *)
(*                                                                         *)
(* C++ doubles are modelled as fixed-point numbers with three decimals     *)
(* (Unit = 1.0) together with the IEEE-754 special values NaN, +Inf and    *)
(* -Inf.  A finite result whose magnitude exceeds MaxFix overflows to an   *)
(* infinity, as a double does beyond DBL_MAX.  Comparisons with NaN are    *)
(* false, x/0 is an infinity or NaN, and the libm functions exp, log,      *)
(* sqrt and erfc are computed by series at the fixed-point resolution.     *)
(***************************************************************************)
EXTENDS Integers, Sequences, FiniteSets, TLC

(***************************************************************************)
(* Fixed-point doubles                                                     *)
(***************************************************************************)
Unit == 1000

MaxFix == 2000000

NaN == [k |-> "nan", v |-> 0]

PInf == [k |-> "inf", v |-> 1]

NInf == [k |-> "inf", v |-> -1]

Num(x) ==
    IF x > MaxFix THEN PInf
    ELSE IF x < -MaxFix THEN NInf
    ELSE [k |-> "num", v |-> x]

Zero == Num(0)

One == Num(Unit)

IsNum(a) == a.k = "num"

IsNaN(a) == a.k = "nan"

AbsInt(x) == IF x < 0 THEN -x ELSE x

SgnInt(x) == IF x < 0 THEN -1 ELSE IF x > 0 THEN 1 ELSE 0

\* int -> double conversion
FromInt(n) == Num(n * Unit)

FNeg(a) == [k |-> a.k, v |-> -a.v]

FAdd(a, b) ==
    IF IsNaN(a) \/ IsNaN(b) THEN NaN
    ELSE IF a.k = "inf" THEN (IF b.k = "inf" /\ b.v # a.v THEN NaN ELSE a)
    ELSE IF b.k = "inf" THEN b
    ELSE Num(a.v + b.v)

FSub(a, b) == FAdd(a, FNeg(b))

\* x*y/Unit for magnitudes x, y <= MaxFix, without leaving the 32-bit range
MulMag(x, y) ==
    IF y = 0 \/ x = 0 THEN 0
    ELSE IF (x \div Unit) > (MaxFix \div y) THEN MaxFix + 1
    ELSE (x \div Unit) * y + (((x % Unit) * y) \div Unit)

FMul(a, b) ==
    IF IsNaN(a) \/ IsNaN(b) THEN NaN
    ELSE IF a.k = "inf" \/ b.k = "inf"
         THEN (IF a.v = 0 \/ b.v = 0 THEN NaN
               ELSE IF SgnInt(a.v) * SgnInt(b.v) > 0 THEN PInf ELSE NInf)
    ELSE Num(SgnInt(a.v) * SgnInt(b.v) * MulMag(AbsInt(a.v), AbsInt(b.v)))

FDiv(a, b) ==
    IF IsNaN(a) \/ IsNaN(b) THEN NaN
    ELSE IF a.k = "inf"
         THEN (IF b.k = "inf" THEN NaN
               ELSE IF a.v * (IF b.v < 0 THEN -1 ELSE 1) > 0 THEN PInf ELSE NInf)
    ELSE IF b.k = "inf" THEN Zero
    ELSE IF b.v = 0
         THEN (IF a.v = 0 THEN NaN ELSE IF a.v > 0 THEN PInf ELSE NInf)
    ELSE Num(SgnInt(a.v) * SgnInt(b.v) * ((AbsInt(a.v) * Unit) \div AbsInt(b.v)))

\* a < b on doubles: false when either side is NaN
FLt(a, b) ==
    IF IsNaN(a) \/ IsNaN(b) THEN FALSE
    ELSE IF a.k = "inf" THEN (a.v < 0 /\ ~(b.k = "inf" /\ b.v < 0))
    ELSE IF b.k = "inf" THEN b.v > 0
    ELSE a.v < b.v

FGt(a, b) == FLt(b, a)

FLe(a, b) ==
    IF IsNaN(a) \/ IsNaN(b) THEN FALSE ELSE ~FLt(b, a)

\* std::max(a, b) is (a < b) ? b : a and std::min(a, b) is (b < a) ? b : a
StdMax(a, b) == IF FLt(a, b) THEN b ELSE a

StdMin(a, b) == IF FLt(b, a) THEN b ELSE a

FAbs(a) == IF IsNaN(a) THEN NaN ELSE [k |-> a.k, v |-> AbsInt(a.v)]

RECURSIVE ISqrtIter(_, _, _)
ISqrtIter(n, lo, hi) ==
    IF lo >= hi THEN lo
    ELSE LET mid == (lo + hi + 1) \div 2
         IN  IF mid * mid <= n THEN ISqrtIter(n, mid, hi)
             ELSE ISqrtIter(n, lo, mid - 1)

FSqrt(a) ==
    IF IsNaN(a) THEN NaN
    ELSE IF a.k = "inf" THEN (IF a.v > 0 THEN PInf ELSE NaN)
    ELSE IF a.v < 0 THEN NaN
    ELSE Num(ISqrtIter(a.v * Unit, 0, 46340))

\* e^f for 0 <= f < Unit by the Taylor series to degree 6
ExpFrac(f) ==
    LET t1 == f
        t2 == (t1 * f) \div (2 * Unit)
        t3 == (t2 * f) \div (3 * Unit)
        t4 == (t3 * f) \div (4 * Unit)
        t5 == (t4 * f) \div (5 * Unit)
        t6 == (t5 * f) \div (6 * Unit)
    IN  Unit + t1 + t2 + t3 + t4 + t5 + t6

EulerE == 2718

RECURSIVE ScaleByE(_, _)
ScaleByE(x, n) ==
    IF n = 0 THEN x
    ELSE IF n > 0 THEN ScaleByE((x * EulerE) \div Unit, n - 1)
    ELSE ScaleByE((x * Unit) \div EulerE, n + 1)

FExp(a) ==
    IF IsNaN(a) THEN NaN
    ELSE IF a.k = "inf" THEN (IF a.v > 0 THEN PInf ELSE Zero)
    ELSE LET n == a.v \div Unit
             f == a.v - n * Unit
         IN  IF n >= 8 THEN PInf
             ELSE IF n < -8 THEN Zero
             ELSE Num(ScaleByE(ExpFrac(f), n))

Ln2 == 693

\* ln(m) for Unit <= m < 2*Unit by 2*atanh((m-1)/(m+1))
LnMantissa(m) ==
    LET z  == ((m - Unit) * Unit) \div (m + Unit)
        z2 == (z * z) \div Unit
        z3 == (z * z2) \div Unit
        z5 == (z3 * z2) \div Unit
        z7 == (z5 * z2) \div Unit
    IN  2 * (z + z3 \div 3 + z5 \div 5 + z7 \div 7)

RECURSIVE LnPos(_, _)
LnPos(x, k) ==
    IF x >= 2 * Unit THEN LnPos(x \div 2, k + 1)
    ELSE IF x < Unit THEN LnPos(x * 2, k - 1)
    ELSE k * Ln2 + LnMantissa(x)

FLog(a) ==
    IF IsNaN(a) THEN NaN
    ELSE IF a.k = "inf" THEN (IF a.v > 0 THEN PInf ELSE NaN)
    ELSE IF a.v < 0 THEN NaN
    ELSE IF a.v = 0 THEN NInf
    ELSE Num(LnPos(a.v, 0))

\* erf(x) for a magnitude 0 <= x < 4*Unit:
\* sqrt(1 - exp(-x^2 (4/pi + c x^2) / (1 + c x^2))), c = 0.147
ErfMag(x) ==
    LET x2  == Num((x * x) \div Unit)
        cx2 == FMul(Num(147), x2)
        q   == FDiv(FAdd(Num(1273), cx2), FAdd(One, cx2))
        e   == FExp(FNeg(FMul(x2, q)))
    IN  FSqrt(FSub(One, e))

FErfc(a) ==
    IF IsNaN(a) THEN NaN
    ELSE IF a.k = "inf" THEN (IF a.v > 0 THEN Zero ELSE Num(2 * Unit))
    ELSE IF a.v >= 4 * Unit THEN Zero
    ELSE IF a.v <= -4 * Unit THEN Num(2 * Unit)
    ELSE IF a.v >= 0 THEN FSub(One, ErfMag(a.v))
    ELSE FAdd(One, ErfMag(-a.v))

(***************************************************************************)
(* Options (src/include/Option.h, src/src/Option.cpp)                      *)
(***************************************************************************)
OptionType == {"CALL", "PUT"}

ExerciseStyle == {"EUROPEAN", "AMERICAN"}

(***************************************************************************)
(* BlackScholes (src/src/BlackScholes.cpp)                                 *)
(***************************************************************************)
\* Mutant: the rate is validated like the other parameters.
BlackScholesRejectsRate(S, K, r, T, sigma) ==
    FLe(S, Zero) \/ FLe(K, Zero) \/ FLe(r, Zero) \/ FLe(T, Zero) \/ FLe(sigma, Zero)

\* The constructor's validation: true when it throws invalid_argument.
BlackScholesRejects(S, K, r, T, sigma) ==
    FLe(S, Zero) \/ FLe(K, Zero) \/ FLe(T, Zero) \/ FLe(sigma, Zero)

\* The object a successful construction yields.
BlackScholes(S, K, r, T, sigma) ==
    [S_ |-> S, K_ |-> K, r_ |-> r, T_ |-> T, sigma_ |-> sigma]

M_SQRT1_2 == 707

M_PI == 3142

Half == Num(500)

normalCDF(x) == FMul(Half, FErfc(FMul(FNeg(x), Num(M_SQRT1_2))))

normalPDF(x) ==
    FDiv(FExp(FMul(FNeg(Half), FMul(x, x))), FSqrt(FMul(Num(2 * Unit), Num(M_PI))))

d1(bs) ==
    FDiv(FAdd(FLog(FDiv(bs.S_, bs.K_)),
              FMul(FAdd(bs.r_, FMul(Half, FMul(bs.sigma_, bs.sigma_))), bs.T_)),
         FMul(bs.sigma_, FSqrt(bs.T_)))

d2(bs) == FSub(d1(bs), FMul(bs.sigma_, FSqrt(bs.T_)))

callPrice(bs) ==
    LET d1_val == d1(bs)
        d2_val == d2(bs)
    IN  FSub(FMul(bs.S_, normalCDF(d1_val)),
             FMul(FMul(bs.K_, FExp(FMul(FNeg(bs.r_), bs.T_))), normalCDF(d2_val)))

putPrice(bs) ==
    LET d1_val == d1(bs)
        d2_val == d2(bs)
    IN  FSub(FMul(FMul(bs.K_, FExp(FMul(FNeg(bs.r_), bs.T_))), normalCDF(FNeg(d2_val))),
             FMul(bs.S_, normalCDF(FNeg(d1_val))))

price(bs, type) == IF type = "CALL" THEN callPrice(bs) ELSE putPrice(bs)

vega(bs) ==
    LET d1_val == d1(bs)
    IN  FMul(FMul(bs.S_, normalPDF(d1_val)), FSqrt(bs.T_))

(***************************************************************************)
(* State                                                                   *)
(***************************************************************************)
VARIABLES
    alive,            \* engine slot -> whether a MonteCarloEngine object lives there
    numSimulations_,  \* engine -> int numSimulations_
    numSteps_,        \* engine -> int numSteps_
    seed_,            \* engine -> unsigned int seed_
    generator_,       \* engine -> state of the mutable std::mt19937
    distribution_,    \* engine -> state of the mutable std::normal_distribution
    ctor,             \* engine -> the last construction: arguments and outcome
    touched,          \* engine -> a setter was called since construction
    callCount,        \* engine -> price() calls since construction
    last,             \* engine -> the latest price() call since the settings
                      \* last changed: arguments and outcome
    prev,             \* engine -> the price() call before the latest, likewise
    bsCtor,      \* the last BlackScholes construction: arguments and outcome
    ivPc,        \* impliedVolatility: "idle", "loop" or "done"
    ivArgs,      \* impliedVolatility: the arguments of the running call
    ivI,         \* impliedVolatility: the loop counter i
    ivSigma,     \* impliedVolatility: the local sigma
    ivOutcome,   \* impliedVolatility: how the call ended (return or exception)
    ivTrace,     \* impliedVolatility: what each loop iteration evaluated
    optObj,      \* option slot -> the Option object living there, if any
    optCtor,     \* option slot -> the last construction: arguments and outcome
    optPayoff,   \* option slot -> the last payoff(spot) call on the object
    lsPc,        \* priceAmerican: the position in the function body
    lsArgs,      \* priceAmerican: the option, market inputs and engine fields
    lsRng,       \* priceAmerican: the engine's generator_ and distribution_
    lsPaths,     \* priceAmerican: the local paths
    lsCashFlows, \* priceAmerican: the local cashFlows
    lsT,         \* priceAmerican: the backward loop's t
    lsI,         \* priceAmerican: the index of the running inner loop
    lsItm,       \* priceAmerican: the local itmIndices
    lsX,         \* priceAmerican: the local X
    lsY,         \* priceAmerican: the local Y
    lsMeanY,     \* priceAmerican: the local meanY
    lsResult,    \* priceAmerican: the MCResult returned
    lsLog,       \* priceAmerican: what each backward step read and wrote
    lgObj,       \* legacy slot -> the legacy EuropeanOption living there, if any
    lgCtor,      \* legacy slot -> the last legacy construction and its outcome
    volObj,      \* the VolatilityPredictor object in use, if any
    volCtor,     \* the last predictor construction: class, argument, outcome
    volCall,     \* the last predict() call on the object: returns and outcome
    lmEngine,    \* the legacy MonteCarloEngine object: its fields, if it exists
    lmThread,    \* thread -> its priceEuropeanOption call: position and locals
    lmReturned   \* the calls that returned since the settings last changed

ivVars == <<ivPc, ivArgs, ivI, ivSigma, ivOutcome, ivTrace>>

optVars == <<optObj, optCtor, optPayoff>>

lgVars == <<lgObj, lgCtor>>

volVars == <<volObj, volCtor, volCall>>

lmVars == <<lmEngine, lmThread, lmReturned>>

lsVars ==
    <<lsPc, lsArgs, lsRng, lsPaths, lsCashFlows, lsT, lsI, lsItm, lsX, lsY,
      lsMeanY, lsResult, lsLog>>

engineVars ==
    <<alive, numSimulations_, numSteps_, seed_, generator_, distribution_,
      ctor, touched, callCount, last, prev>>

vars == <<engineVars, bsCtor, ivVars, optVars, lsVars, lgVars, volVars, lmVars>>

(***************************************************************************)
(* BlackScholes::impliedVolatility, one loop iteration per step            *)
(***************************************************************************)
SigmaInit == 200

SigmaLo == 1

SigmaHi == 5000

\* 1e-10 lies below the fixed-point resolution: it is the smallest positive
\* fixed-point number, so vega < VegaEps exactly when vega <= 0.
VegaEps == 1

MaxIter == 4

IVMarketPrices ==
    {Num(0), Num(56), Num(107), Num(150), Num(263), Num(2049), Num(3000), NaN}

IVSpots == {Num(0), Num(1000), Num(1200), Num(3000)}

IVStrikes == {Num(1000)}

IVRates == {Num(50)}

IVMaturities == {Num(1000)}

IVTolerances == {Num(2), Num(10)}

IVMaxIterations == (-1) .. MaxIter

NoOutcome == [kind |-> "none", value |-> NaN]

NoArgs ==
    [marketPrice |-> Zero, S |-> Zero, K |-> Zero, r |-> Zero, T |-> Zero,
     type |-> "CALL", tolerance |-> Zero, maxIterations |-> 0]

\* Mutant: the loop bound is off by one.
LoopContinuesInclusive(i, maxIterations) == i <= maxIterations

\* for (...; i < maxIterations; ...)
LoopContinues(i, maxIterations) == i < maxIterations

\* std::abs(diff) < tolerance
ToleranceMet(diff, tolerance) == FLt(FAbs(diff), tolerance)

\* Mutant: only a negative vega is refused.
VegaTooSmallNegative(v) == FLt(v, Zero)

\* vega < 1e-10
VegaTooSmall(v) == FLt(v, Num(VegaEps))

\* sigma = sigma - diff / vega
NewtonUpdate(sigma, diff, v) == FSub(sigma, FDiv(diff, v))

\* Mutant: the lower clamp is missing.
ClampSigmaUpperOnly(sigma) == StdMin(sigma, Num(SigmaHi))

\* sigma = std::max(0.001, std::min(sigma, 5.0))
ClampSigma(sigma) == StdMax(Num(SigmaLo), StdMin(sigma, Num(SigmaHi)))

\* The BlackScholes object of the current iteration.
IVbs == BlackScholes(ivArgs.S, ivArgs.K, ivArgs.r, ivArgs.T, ivSigma)

IVprice == price(IVbs, ivArgs.type)

IVdiff == FSub(IVprice, ivArgs.marketPrice)

IVEntry(tolMet, vegaRead, v) ==
    [sigma |-> ivSigma, price |-> IVprice, tolMet |-> tolMet,
     vegaRead |-> vegaRead, vega |-> v]

IVCall(marketPrice, S, K, r, T, type, tolerance, maxIterations) ==
    /\ ivPc # "loop"
    /\ ivArgs' = [marketPrice |-> marketPrice, S |-> S, K |-> K, r |-> r, T |-> T,
                  type |-> type, tolerance |-> tolerance,
                  maxIterations |-> maxIterations]
    /\ ivPc' = "loop"
    /\ ivI' = 0
    /\ ivSigma' = Num(SigmaInit)
    /\ ivOutcome' = NoOutcome
    /\ ivTrace' = <<>>

\* Mutant: when the budget is exhausted the last estimate is returned.
AfterLoopReturns(sigma) == [kind |-> "return", value |-> sigma]

\* After the loop: throw "Implied volatility did not converge"; the local
\* sigma is dropped.
AfterLoop(sigma) == [kind |-> "did_not_converge", value |-> NaN]

\* The loop condition fails.
IVExhausted ==
    /\ ivPc = "loop"
    /\ ~LoopContinues(ivI, ivArgs.maxIterations)
    /\ ivPc' = "done"
    /\ ivOutcome' = AfterLoop(ivSigma)
    /\ UNCHANGED <<ivArgs, ivI, ivSigma, ivTrace>>

\* BlackScholes bs(S, K, r, T, sigma) throws invalid_argument.
IVCtorThrows ==
    /\ ivPc = "loop"
    /\ LoopContinues(ivI, ivArgs.maxIterations)
    /\ BlackScholesRejects(ivArgs.S, ivArgs.K, ivArgs.r, ivArgs.T, ivSigma)
    /\ ivPc' = "done"
    /\ ivOutcome' = [kind |-> "invalid_argument", value |-> NaN]
    /\ UNCHANGED <<ivArgs, ivI, ivSigma, ivTrace>>

\* std::abs(diff) < tolerance: return sigma.
IVReturn ==
    /\ ivPc = "loop"
    /\ LoopContinues(ivI, ivArgs.maxIterations)
    /\ ~BlackScholesRejects(ivArgs.S, ivArgs.K, ivArgs.r, ivArgs.T, ivSigma)
    /\ ToleranceMet(IVdiff, ivArgs.tolerance)
    /\ ivPc' = "done"
    /\ ivOutcome' = [kind |-> "return", value |-> ivSigma]
    /\ ivTrace' = Append(ivTrace, IVEntry(TRUE, FALSE, NaN))
    /\ UNCHANGED <<ivArgs, ivI, ivSigma>>

\* vega < 1e-10: throw "Vega too small".
IVVegaThrows ==
    /\ ivPc = "loop"
    /\ LoopContinues(ivI, ivArgs.maxIterations)
    /\ ~BlackScholesRejects(ivArgs.S, ivArgs.K, ivArgs.r, ivArgs.T, ivSigma)
    /\ ~ToleranceMet(IVdiff, ivArgs.tolerance)
    /\ VegaTooSmall(vega(IVbs))
    /\ ivPc' = "done"
    /\ ivOutcome' = [kind |-> "vega_too_small", value |-> NaN]
    /\ ivTrace' = Append(ivTrace, IVEntry(FALSE, TRUE, vega(IVbs)))
    /\ UNCHANGED <<ivArgs, ivI, ivSigma>>

\* The Newton step, the clamp and ++i.
IVUpdate ==
    /\ ivPc = "loop"
    /\ LoopContinues(ivI, ivArgs.maxIterations)
    /\ ~BlackScholesRejects(ivArgs.S, ivArgs.K, ivArgs.r, ivArgs.T, ivSigma)
    /\ ~ToleranceMet(IVdiff, ivArgs.tolerance)
    /\ ~VegaTooSmall(vega(IVbs))
    /\ ivSigma' = ClampSigma(NewtonUpdate(ivSigma, IVdiff, vega(IVbs)))
    /\ ivI' = ivI + 1
    /\ ivTrace' = Append(ivTrace, IVEntry(FALSE, TRUE, vega(IVbs)))
    /\ UNCHANGED <<ivPc, ivArgs, ivOutcome>>

(***************************************************************************)
(* BlackScholes::BlackScholes                                              *)
(***************************************************************************)
BSCtorValues == {Num(-1000), Zero, Num(1000), NaN}

NoCtor == [args |-> <<Zero, Zero, Zero, Zero, Zero>>, status |-> "none"]

BSConstructOk(S, K, r, T, sigma) ==
    /\ ~BlackScholesRejects(S, K, r, T, sigma)
    /\ bsCtor' = [args |-> <<S, K, r, T, sigma>>, status |-> "constructed"]

BSConstructThrows(S, K, r, T, sigma) ==
    /\ BlackScholesRejects(S, K, r, T, sigma)
    /\ bsCtor' = [args |-> <<S, K, r, T, sigma>>, status |-> "invalid_argument"]

(***************************************************************************)
(* Option payoffs (src/src/Option.cpp)                                     *)
(***************************************************************************)
\* EuropeanOption(strike, maturity, type): the base constructor gets
\* ExerciseStyle::EUROPEAN.
EuropeanOption(strike, maturity, type) ==
    [cls |-> "EuropeanOption", strike_ |-> strike, maturity_ |-> maturity,
     type_ |-> type, style_ |-> "EUROPEAN"]

\* Mutant: AmericanOption hands the base constructor ExerciseStyle::EUROPEAN.
AmericanOptionEuropeanStyle(strike, maturity, type) ==
    [cls |-> "AmericanOption", strike_ |-> strike, maturity_ |-> maturity,
     type_ |-> type, style_ |-> "EUROPEAN"]

\* AmericanOption(strike, maturity, type): the base constructor gets
\* ExerciseStyle::AMERICAN.
AmericanOption(strike, maturity, type) ==
    [cls |-> "AmericanOption", strike_ |-> strike, maturity_ |-> maturity,
     type_ |-> type, style_ |-> "AMERICAN"]

\* Mutant: the payoff is not floored at zero.
EuropeanPayoffNoFloor(option, spot) ==
    IF option.type_ = "CALL" THEN FSub(spot, option.strike_)
    ELSE FSub(option.strike_, spot)

\* EuropeanOption::payoff
EuropeanPayoff(option, spot) ==
    IF option.type_ = "CALL" THEN StdMax(FSub(spot, option.strike_), Zero)
    ELSE StdMax(FSub(option.strike_, spot), Zero)

\* AmericanOption::payoff
AmericanPayoff(option, spot) ==
    IF option.type_ = "CALL" THEN StdMax(FSub(spot, option.strike_), Zero)
    ELSE StdMax(FSub(option.strike_, spot), Zero)

\* The virtual call option.payoff(spot).
payoff(option, spot) ==
    IF option.cls = "EuropeanOption" THEN EuropeanPayoff(option, spot)
    ELSE AmericanPayoff(option, spot)

(***************************************************************************)
(* Option objects: construction, getters and payoff calls                  *)
(***************************************************************************)
OptSlots == {1, 2}

OptClasses == {"EuropeanOption", "AmericanOption"}

OptStrikes == {Num(-1000), Zero, Num(1000), Num(1200)}

OptMaturities == {Num(-500), Zero, Num(1000)}

OptSpots == {Num(-200), Zero, Num(700), Num(1000), Num(1200), Num(1500)}

NoOption ==
    [cls |-> "none", strike_ |-> Zero, maturity_ |-> Zero, type_ |-> "CALL",
     style_ |-> "EUROPEAN"]

NoOptionCtor ==
    [cls |-> "none", args |-> <<Zero, Zero, "CALL">>, status |-> "none"]

NoPayoff == [called |-> FALSE, spot |-> Zero, value |-> Zero]

\* Mutant: the maturity is not validated.
OptionRejectsStrike(strike, maturity) == FLe(strike, Zero)

\* Option::Option's validation: true when it throws invalid_argument.
OptionRejects(strike, maturity) == FLe(strike, Zero) \/ FLe(maturity, Zero)

\* new EuropeanOption(...) or new AmericanOption(...)
NewOption(cls, strike, maturity, type) ==
    IF cls = "EuropeanOption" THEN EuropeanOption(strike, maturity, type)
    ELSE AmericanOption(strike, maturity, type)

OptionConstruct(o, cls, strike, maturity, type) ==
    /\ ~OptionRejects(strike, maturity)
    /\ optObj' = [optObj EXCEPT ![o] = NewOption(cls, strike, maturity, type)]
    /\ optCtor' = [optCtor EXCEPT ![o] = [cls |-> cls,
                                           args |-> <<strike, maturity, type>>,
                                           status |-> "constructed"]]
    /\ optPayoff' = [optPayoff EXCEPT ![o] = NoPayoff]

\* The base constructor throws: no object comes to exist in the slot.
OptionConstructThrows(o, cls, strike, maturity, type) ==
    /\ OptionRejects(strike, maturity)
    /\ optObj' = [optObj EXCEPT ![o] = NoOption]
    /\ optCtor' = [optCtor EXCEPT ![o] = [cls |-> cls,
                                           args |-> <<strike, maturity, type>>,
                                           status |-> "invalid_argument"]]
    /\ optPayoff' = [optPayoff EXCEPT ![o] = NoPayoff]

getStrike(o) == optObj[o].strike_

getMaturity(o) == optObj[o].maturity_

getType(o) == optObj[o].type_

getStyle(o) == optObj[o].style_

\* option.payoff(spot) on the object in slot o: a const member function.
OptionPayoff(o, spot) ==
    /\ optObj[o].cls # "none"
    /\ optPayoff' = [optPayoff EXCEPT ![o] = [called |-> TRUE, spot |-> spot,
                                               value |-> payoff(optObj[o], spot)]]
    /\ UNCHANGED <<optObj, optCtor>>

(***************************************************************************)
(* The legacy pricer's option (src/src/cpp): Option and EuropeanOption      *)
(***************************************************************************)
LegacySlots == {1, 2}

\* The type strings tried, and ::tolower applied to each of their characters.
LegacyTypeStrings == {"call", "put", "CALL", "Put", "swap"}

ToLower(type) ==
    CASE type = "CALL" -> "call"
      [] type = "Put" -> "put"
      [] OTHER -> type

NoLegacyOption ==
    [cls |-> "none", spotPrice |-> Zero, strikePrice |-> Zero,
     riskFreeRate |-> Zero, volatility |-> Zero, timeToMaturity |-> Zero,
     optionType |-> ""]

NoLegacyCtor ==
    [args |-> <<Zero, Zero, Zero, Zero, Zero, "">>, status |-> "none"]

\* The legacy Option::Option's validation: true when it throws.
LegacyOptionRejects(S, K, r, sigma, T, type) ==
    \/ FLe(S, Zero)
    \/ FLe(K, Zero)
    \/ FLt(sigma, Zero)
    \/ FLt(T, Zero)
    \/ (ToLower(type) # "call" /\ ToLower(type) # "put")

\* The object EuropeanOption(S, K, r, sigma, T, type) yields.
LegacyEuropeanOption(S, K, r, sigma, T, type) ==
    [cls |-> "EuropeanOption", spotPrice |-> S, strikePrice |-> K,
     riskFreeRate |-> r, volatility |-> sigma, timeToMaturity |-> T,
     optionType |-> ToLower(type)]

LegacyConstruct(o, S, K, r, sigma, T, type) ==
    /\ ~LegacyOptionRejects(S, K, r, sigma, T, type)
    /\ lgObj' = [lgObj EXCEPT ![o] = LegacyEuropeanOption(S, K, r, sigma, T, type)]
    /\ lgCtor' = [lgCtor EXCEPT ![o] = [args |-> <<S, K, r, sigma, T, type>>,
                                         status |-> "constructed"]]

LegacyConstructThrows(o, S, K, r, sigma, T, type) ==
    /\ LegacyOptionRejects(S, K, r, sigma, T, type)
    /\ lgObj' = [lgObj EXCEPT ![o] = NoLegacyOption]
    /\ lgCtor' = [lgCtor EXCEPT ![o] = [args |-> <<S, K, r, sigma, T, type>>,
                                         status |-> "invalid_argument"]]

\* void setVolatility(double sigma) { volatility = sigma; }
setVolatility(o, sigma) ==
    /\ lgObj[o].cls # "none"
    /\ lgObj' = [lgObj EXCEPT ![o].volatility = sigma]
    /\ UNCHANGED lgCtor

\* void setSpotPrice(double S) { spotPrice = S; }
setSpotPrice(o, S) ==
    /\ lgObj[o].cls # "none"
    /\ lgObj' = [lgObj EXCEPT ![o].spotPrice = S]
    /\ UNCHANGED lgCtor

Legacy_d1(o) ==
    IF o.timeToMaturity = Zero THEN Zero
    ELSE FDiv(FAdd(FLog(FDiv(o.spotPrice, o.strikePrice)),
                   FMul(FAdd(o.riskFreeRate,
                             FMul(FMul(Half, o.volatility), o.volatility)),
                        o.timeToMaturity)),
              FMul(o.volatility, FSqrt(o.timeToMaturity)))

Legacy_d2(o) ==
    IF o.timeToMaturity = Zero THEN Zero
    ELSE FSub(Legacy_d1(o), FMul(o.volatility, FSqrt(o.timeToMaturity)))

Legacy_normalCDF(x) ==
    FMul(Half, FErfc(FDiv(FNeg(x), FSqrt(Num(2 * Unit)))))

\* EuropeanOption::calculatePrice of the legacy pricer
calculatePrice(o) ==
    IF o.timeToMaturity = Zero
    THEN (IF o.optionType = "call"
          THEN StdMax(FSub(o.spotPrice, o.strikePrice), Zero)
          ELSE StdMax(FSub(o.strikePrice, o.spotPrice), Zero))
    ELSE LET d1_val         == Legacy_d1(o)
             d2_val         == Legacy_d2(o)
             discountFactor == FExp(FMul(FNeg(o.riskFreeRate), o.timeToMaturity))
         IN  IF o.optionType = "call"
             THEN FSub(FMul(o.spotPrice, Legacy_normalCDF(d1_val)),
                       FMul(FMul(o.strikePrice, discountFactor),
                            Legacy_normalCDF(d2_val)))
             ELSE FSub(FMul(FMul(o.strikePrice, discountFactor),
                            Legacy_normalCDF(FNeg(d2_val))),
                       FMul(o.spotPrice, Legacy_normalCDF(FNeg(d1_val))))

(***************************************************************************)
(* The random source: std::mt19937 generator_ and                          *)
(* std::normal_distribution<double> distribution_.  The generator is a     *)
(* deterministic state machine over GenMod states; the distribution keeps  *)
(* the second variate of each generated pair for the next call.            *)
(***************************************************************************)
GenMod == 16

GenMul == 5

GenInc == 3

ZStep == 600

MtSeed(seed) == seed % GenMod

MtNext(g) == (GenMul * g + GenInc) % GenMod

ZOf(g) == Num(((g % 5) - 2) * ZStep)

FreshDistribution == [saved_available |-> FALSE, saved |-> Zero]

\* distribution_(generator_) on the pair rng = [g, d]
NormalDraw(rng) ==
    IF rng.d.saved_available
    THEN [z |-> rng.d.saved, rng |-> [g |-> rng.g, d |-> FreshDistribution]]
    ELSE LET g1 == MtNext(rng.g)
             g2 == MtNext(g1)
         IN  [z |-> ZOf(g2),
              rng |-> [g |-> g2, d |-> [saved_available |-> TRUE, saved |-> ZOf(g1)]]]

(***************************************************************************)
(* MonteCarloEngine (src/src/MonteCarloEngine.cpp)                         *)
(***************************************************************************)
\* C++ v[i] on a TLA+ sequence
At(v, i) == v[i + 1]

RECURSIVE PathLoop(_, _, _, _, _, _)
PathLoop(path, i, numSteps, drift, diffusion, rng) ==
    IF i > numSteps THEN [path |-> path, rng |-> rng]
    ELSE LET dr   == NormalDraw(rng)
             next == FMul(At(path, i - 1), FExp(FAdd(drift, FMul(diffusion, dr.z))))
         IN  PathLoop(Append(path, next), i + 1, numSteps, drift, diffusion, dr.rng)

\* generatePath for numSteps >= 0: the path and the random source after it
generatePath(S0, r, sigma, T, numSteps, rng) ==
    LET dt        == FDiv(T, FromInt(numSteps))
        drift     == FMul(FSub(r, FMul(Half, FMul(sigma, sigma))), dt)
        diffusion == FMul(sigma, FSqrt(dt))
    IN  PathLoop(<<S0>>, 1, numSteps, drift, diffusion, rng)

\* for (i = 0; i < numSimulations_; ++i) paths[i] = generatePath(...)
RECURSIVE PathsLoop(_, _, _, _, _, _, _, _)
PathsLoop(paths, numSimulations, S0, r, sigma, T, numSteps, rng) ==
    IF Len(paths) >= numSimulations THEN [paths |-> paths, rng |-> rng]
    ELSE LET gp == generatePath(S0, r, sigma, T, numSteps, rng)
         IN  PathsLoop(Append(paths, gp.path), numSimulations, S0, r, sigma, T,
                       numSteps, gp.rng)

\* std::accumulate(v.begin(), v.end(), 0.0)
RECURSIVE Accumulate(_, _, _)
Accumulate(v, k, acc) ==
    IF k > Len(v) THEN acc ELSE Accumulate(v, k + 1, FAdd(acc, v[k]))

RECURSIVE SumSquaredLoop(_, _, _, _)
SumSquaredLoop(v, mean, k, acc) ==
    IF k > Len(v) THEN acc
    ELSE LET diff == FSub(v[k], mean)
         IN  SumSquaredLoop(v, mean, k + 1, FAdd(acc, FMul(diff, diff)))

Z95 == 1960

\* Mutant: the two confidence bounds are swapped.
MCResultSwapped(p, standardError, numSimulations) ==
    [kind |-> "result", price |-> p, standardError |-> standardError,
     confidence95Lower |-> FAdd(p, FMul(Num(Z95), standardError)),
     confidence95Upper |-> FSub(p, FMul(Num(Z95), standardError)),
     numSimulations |-> numSimulations]

\* MCResult result; result.price = price; ...
MCResult(p, standardError, numSimulations) ==
    [kind |-> "result", price |-> p, standardError |-> standardError,
     confidence95Lower |-> FSub(p, FMul(Num(Z95), standardError)),
     confidence95Upper |-> FAdd(p, FMul(Num(Z95), standardError)),
     numSimulations |-> numSimulations]

\* A call that ends in an exception (or never returns) yields no MCResult.
NoResult(kind) ==
    [kind |-> kind, price |-> NaN, standardError |-> NaN,
     confidence95Lower |-> NaN, confidence95Upper |-> NaN, numSimulations |-> 0]

\* Mutant: the mean is not discounted.
StatisticsUndiscounted(values, discount, numSimulations) ==
    LET sum           == Accumulate(values, 1, Zero)
        mean          == FDiv(sum, FromInt(numSimulations))
        sumSquared    == SumSquaredLoop(values, mean, 1, Zero)
        variance      == FDiv(sumSquared, FromInt(numSimulations - 1))
        standardError == FMul(discount, FSqrt(FDiv(variance, FromInt(numSimulations))))
    IN  MCResult(mean, standardError, numSimulations)

\* mean, price, standard error and confidence interval of the per-path values
Statistics(values, discount, numSimulations) ==
    LET sum           == Accumulate(values, 1, Zero)
        mean          == FDiv(sum, FromInt(numSimulations))
        p             == FMul(discount, mean)
        sumSquared    == SumSquaredLoop(values, mean, 1, Zero)
        variance      == FDiv(sumSquared, FromInt(numSimulations - 1))
        standardError == FMul(discount, FSqrt(FDiv(variance, FromInt(numSimulations))))
    IN  MCResult(p, standardError, numSimulations)

TerminalPayoffs(option, paths, numSteps) ==
    [i \in 1 .. Len(paths) |-> payoff(option, At(paths[i], numSteps))]

\* priceEuropean for numSimulations >= 0 and numSteps >= 0
priceEuropean(option, S0, r, sigma, numSimulations, numSteps, rng) ==
    LET T        == option.maturity_
        sim      == PathsLoop(<<>>, numSimulations, S0, r, sigma, T, numSteps, rng)
        payoffs  == TerminalPayoffs(option, sim.paths, numSteps)
        discount == FExp(FMul(FNeg(r), T))
    IN  [result |-> Statistics(payoffs, discount, numSimulations), rng |-> sim.rng]

ItmThreshold == 10

\* Mutant: the regression also runs with exactly ItmThreshold paths.
RegressionRunsAtThreshold(n) == n >= ItmThreshold

\* if (itmIndices.size() > 10)
RegressionRuns(n) == n > ItmThreshold

\* the indices i, in increasing order, with option.payoff(paths[i][t]) > 0
ItmIndices(option, paths, t) ==
    {i \in 1 .. Len(paths) : FGt(payoff(option, At(paths[i], t)), Zero)}

RECURSIVE SumY(_, _, _, _, _)
SumY(cashFlows, itm, discount, k, acc) ==
    IF k > Len(cashFlows) THEN acc
    ELSE SumY(cashFlows, itm, discount, k + 1,
              IF k \in itm THEN FAdd(acc, FMul(cashFlows[k], discount)) ELSE acc)

\* The continuation value the exercise decision compares against.
ContinuationValue(cashFlows, itm, discount) ==
    FDiv(SumY(cashFlows, itm, discount, 1, Zero), FromInt(Cardinality(itm)))

\* One iteration of the backward induction loop, at time step t.
BackwardStep(option, paths, cashFlows, discount, t) ==
    LET itm   == ItmIndices(option, paths, t)
        meanY == ContinuationValue(cashFlows, itm, discount)
    IN  [i \in 1 .. Len(cashFlows) |->
            IF i \in itm /\ RegressionRuns(Cardinality(itm))
               /\ FGt(payoff(option, At(paths[i], t)), meanY)
            THEN payoff(option, At(paths[i], t))
            ELSE FMul(cashFlows[i], discount)]

\* for (int t = numSteps_ - 1; t > 0; --t)
RECURSIVE BackwardInduction(_, _, _, _, _)
BackwardInduction(option, paths, cashFlows, discount, t) ==
    IF ~(t > 0) THEN cashFlows
    ELSE BackwardInduction(option, paths,
                           BackwardStep(option, paths, cashFlows, discount, t),
                           discount, t - 1)

\* priceAmerican for numSimulations >= 0 and numSteps >= 0
priceAmerican(option, S0, r, sigma, numSimulations, numSteps, rng) ==
    LET T         == option.maturity_
        dt        == FDiv(T, FromInt(numSteps))
        discount  == FExp(FMul(FNeg(r), dt))
        sim       == PathsLoop(<<>>, numSimulations, S0, r, sigma, T, numSteps, rng)
        atExpiry  == TerminalPayoffs(option, sim.paths, numSteps)
        cashFlows == BackwardInduction(option, sim.paths, atExpiry, discount,
                                       numSteps - 1)
    IN  [result |-> Statistics(cashFlows, discount, numSimulations), rng |-> sim.rng]

\* What price() can do on an engine with the given fields: the set of
\* [result, rng] outcomes.  A negative vector size throws length_error; with
\* numSteps_ = -1 generatePath writes path[0] of an empty vector, which is
\* undefined: the call crashes, or goes on with whatever path[numSteps_] reads.
UBSpots(S0) == {Zero, S0}

UBOutcomes(option, S0, r, numSimulations, numSteps, rng) ==
    {[result |-> NoResult("crash"), rng |-> rng]} \cup
    {[result |-> Statistics([i \in 1 .. numSimulations |-> payoff(option, g)],
                            IF option.style_ = "EUROPEAN"
                            THEN FExp(FMul(FNeg(r), option.maturity_))
                            ELSE FExp(FMul(FNeg(r),
                                           FDiv(option.maturity_, FromInt(numSteps)))),
                            numSimulations),
      rng |-> rng] : g \in UBSpots(S0)}

\* Whether price() validates its market inputs before simulating.
PriceRejects(S0, r, sigma) == FALSE

PriceOutcomes(option, S0, r, sigma, numSimulations, numSteps, rng) ==
    IF PriceRejects(S0, r, sigma)
    THEN {[result |-> NoResult("invalid_argument"), rng |-> rng]}
    ELSE IF option.style_ = "EUROPEAN" /\ option.cls # "EuropeanOption"
    THEN {[result |-> NoResult("bad_cast"), rng |-> rng]}
    ELSE IF option.style_ # "EUROPEAN" /\ option.cls # "AmericanOption"
    THEN {[result |-> NoResult("bad_cast"), rng |-> rng]}
    ELSE IF numSimulations < 0
    THEN {[result |-> NoResult("length_error"), rng |-> rng]}
    ELSE IF numSimulations > 0 /\ numSteps + 1 < 0
    THEN {[result |-> NoResult("length_error"), rng |-> rng]}
    ELSE IF numSimulations > 0 /\ numSteps + 1 = 0
    THEN UBOutcomes(option, S0, r, numSimulations, numSteps, rng)
    ELSE IF option.style_ = "EUROPEAN"
    THEN {priceEuropean(option, S0, r, sigma, numSimulations, numSteps, rng)}
    ELSE {priceAmerican(option, S0, r, sigma, numSimulations, numSteps, rng)}

(***************************************************************************)
(* MonteCarloEngine: construction, setters and price()                     *)
(***************************************************************************)
Engines == {1, 2}

MaxCalls == 2

SimCounts == {-1, 0, 1, 2}

StepCounts == {-2, -1, 0, 1, 2}

Seeds == {42, 123}

MCStrike == Num(1000)

MCMaturity == Num(1000)

\* A spot so large that the sum of two payoffs exceeds the largest finite
\* double.
HugeSpot == 1500000

\* The price() arguments tried: <<option, S0, r, sigma>>
MCArgs ==
    {<<EuropeanOption(MCStrike, MCMaturity, "PUT"), Num(800), Num(50), Num(200)>>,
     <<AmericanOption(MCStrike, MCMaturity, "PUT"), Num(800), Num(50), Num(200)>>,
     <<EuropeanOption(MCStrike, MCMaturity, "PUT"), Zero, Num(50), Num(200)>>,
     <<EuropeanOption(MCStrike, MCMaturity, "CALL"), Num(1200), Num(50), Zero>>,
     <<EuropeanOption(MCStrike, MCMaturity, "CALL"), Num(HugeSpot), Num(50), Num(200)>>}

NoCall == [args |-> <<>>, result |-> NoResult("none")]

NoEngineCtor == [args |-> <<0, 0, 0>>, status |-> "none"]

\* Mutant: zero counts are accepted.
EngineRejectsNegative(numSimulations, numSteps) == numSimulations < 0 \/ numSteps < 0

\* The constructor's validation: true when it throws invalid_argument.
EngineRejects(numSimulations, numSteps) == numSimulations <= 0 \/ numSteps <= 0

\* Mutant: the generator is one static object shared by all engines and is
\* not seeded by the constructor.
InitialGeneratorShared(e, seed) == generator_[1]

\* generator_(seed): the state the constructor gives the engine's generator.
InitialGenerator(e, seed) == MtSeed(seed)

Construct(e, numSimulations, numSteps, seed) ==
    /\ ~EngineRejects(numSimulations, numSteps)
    /\ alive' = [alive EXCEPT ![e] = TRUE]
    /\ numSimulations_' = [numSimulations_ EXCEPT ![e] = numSimulations]
    /\ numSteps_' = [numSteps_ EXCEPT ![e] = numSteps]
    /\ seed_' = [seed_ EXCEPT ![e] = seed]
    /\ generator_' = [generator_ EXCEPT ![e] = InitialGenerator(e, seed)]
    /\ distribution_' = [distribution_ EXCEPT ![e] = FreshDistribution]
    /\ ctor' = [ctor EXCEPT ![e] = [args |-> <<numSimulations, numSteps, seed>>,
                                    status |-> "constructed"]]
    /\ touched' = [touched EXCEPT ![e] = FALSE]
    /\ callCount' = [callCount EXCEPT ![e] = 0]
    /\ last' = [last EXCEPT ![e] = NoCall]
    /\ prev' = [prev EXCEPT ![e] = NoCall]

\* The constructor throws: no object comes to exist in the slot.
ConstructThrows(e, numSimulations, numSteps, seed) ==
    /\ EngineRejects(numSimulations, numSteps)
    /\ alive' = [alive EXCEPT ![e] = FALSE]
    /\ numSimulations_' = [numSimulations_ EXCEPT ![e] = 0]
    /\ numSteps_' = [numSteps_ EXCEPT ![e] = 0]
    /\ seed_' = [seed_ EXCEPT ![e] = 0]
    /\ generator_' = [generator_ EXCEPT ![e] = 0]
    /\ distribution_' = [distribution_ EXCEPT ![e] = FreshDistribution]
    /\ ctor' = [ctor EXCEPT ![e] = [args |-> <<numSimulations, numSteps, seed>>,
                                    status |-> "invalid_argument"]]
    /\ touched' = [touched EXCEPT ![e] = FALSE]
    /\ callCount' = [callCount EXCEPT ![e] = 0]
    /\ last' = [last EXCEPT ![e] = NoCall]
    /\ prev' = [prev EXCEPT ![e] = NoCall]

getNumSimulations(e) == numSimulations_[e]

getNumSteps(e) == numSteps_[e]

\* The value setNumSimulations(n) stores.
SetterStores(n) == n

setNumSimulations(e, n) ==
    /\ alive[e]
    /\ numSimulations_' = [numSimulations_ EXCEPT ![e] = SetterStores(n)]
    /\ touched' = [touched EXCEPT ![e] = TRUE]
    /\ last' = [last EXCEPT ![e] = NoCall]
    /\ prev' = [prev EXCEPT ![e] = NoCall]
    /\ UNCHANGED <<alive, numSteps_, seed_, generator_, distribution_, ctor,
                   callCount>>

setNumSteps(e, n) ==
    /\ alive[e]
    /\ numSteps_' = [numSteps_ EXCEPT ![e] = SetterStores(n)]
    /\ touched' = [touched EXCEPT ![e] = TRUE]
    /\ last' = [last EXCEPT ![e] = NoCall]
    /\ prev' = [prev EXCEPT ![e] = NoCall]
    /\ UNCHANGED <<alive, numSimulations_, seed_, generator_, distribution_, ctor,
                   callCount>>

\* The random source a price() call draws from.
CallRng(e) == [g |-> generator_[e], d |-> distribution_[e]]

Price(e, option, S0, r, sigma) ==
    /\ alive[e]
    /\ callCount[e] < MaxCalls
    /\ \E out \in PriceOutcomes(option, S0, r, sigma, numSimulations_[e],
                                numSteps_[e], CallRng(e)) :
          /\ generator_' = [generator_ EXCEPT ![e] = out.rng.g]
          /\ distribution_' = [distribution_ EXCEPT ![e] = out.rng.d]
          /\ last' = [last EXCEPT ![e] = [args |-> <<option, S0, r, sigma>>,
                                          result |-> out.result]]
    /\ prev' = [prev EXCEPT ![e] = last[e]]
    /\ callCount' = [callCount EXCEPT ![e] = @ + 1]
    /\ UNCHANGED <<alive, numSimulations_, numSteps_, seed_, ctor, touched>>

(***************************************************************************)
(* MonteCarloEngine::priceAmerican, one loop iteration per step, called    *)
(* through price() on a freshly constructed engine.  Indices are the C++   *)
(* ones (from 0); lsLog keeps, for each backward step, the cash flows it   *)
(* started from, the in-the-money paths it found and what it wrote.        *)
(***************************************************************************)
NoLSArgs ==
    [option |-> NoOption, S0 |-> Zero, r |-> Zero, sigma |-> Zero,
     numSimulations |-> 0, numSteps |-> 0, seed |-> 0]

LSInit ==
    /\ lsPc = "idle"
    /\ lsArgs = NoLSArgs
    /\ lsRng = [g |-> 0, d |-> FreshDistribution]
    /\ lsPaths = <<>>
    /\ lsCashFlows = <<>>
    /\ lsT = 0
    /\ lsI = 0
    /\ lsItm = <<>>
    /\ lsX = <<>>
    /\ lsY = <<>>
    /\ lsMeanY = Zero
    /\ lsResult = NoResult("none")
    /\ lsLog = <<>>

\* double dt = T / numSteps_
LSdt == FDiv(lsArgs.option.maturity_, FromInt(lsArgs.numSteps))

\* double discount = std::exp(-r * dt)
LSdiscount == FExp(FMul(FNeg(lsArgs.r), LSdt))

\* Mutant: the backward loop starts at the maturity step.
FirstStepAtMaturity(numSteps) == numSteps

\* int t = numSteps_ - 1
FirstStep(numSteps) == numSteps - 1

\* The sums the regression block accumulates over X and Y.
RECURSIVE RegressionSums(_, _, _, _)
RegressionSums(X, Y, k, acc) ==
    IF k > Len(X) THEN acc
    ELSE LET x  == X[k]
             y  == Y[k]
             x2 == FMul(x, x)
         IN  RegressionSums(X, Y, k + 1,
                 [sum_x   |-> FAdd(acc.sum_x, x),
                  sum_x2  |-> FAdd(acc.sum_x2, x2),
                  sum_x3  |-> FAdd(acc.sum_x3, FMul(x2, x)),
                  sum_x4  |-> FAdd(acc.sum_x4, FMul(x2, x2)),
                  sum_y   |-> FAdd(acc.sum_y, y),
                  sum_xy  |-> FAdd(acc.sum_xy, FMul(x, y)),
                  sum_x2y |-> FAdd(acc.sum_x2y, FMul(x2, y))])

ZeroSums ==
    [sum_x |-> Zero, sum_x2 |-> Zero, sum_x3 |-> Zero, sum_x4 |-> Zero,
     sum_y |-> Zero, sum_xy |-> Zero, sum_x2y |-> Zero]

\* double meanY = sum_y / n
MeanY(X, Y) == FDiv(RegressionSums(X, Y, 1, ZeroSums).sum_y, FromInt(Len(X)))

\* Mutant: the continuation value is zero, so every regressed path exercises.
ContinuationOfZero(meanY) == Zero

\* double continuationValue = meanY
ContinuationOf(meanY) == meanY

\* price() on a fresh MonteCarloEngine(numSimulations, numSteps, seed) with
\* an AmericanOption enters priceAmerican.
LSCall(option, S0, r, sigma, numSimulations, numSteps, seed) ==
    /\ lsPc \in {"idle", "done"}
    /\ ~EngineRejects(numSimulations, numSteps)
    /\ ~OptionRejects(option.strike_, option.maturity_)
    /\ option.style_ = "AMERICAN"
    /\ option.cls = "AmericanOption"
    /\ lsArgs' = [option |-> option, S0 |-> S0, r |-> r, sigma |-> sigma,
                  numSimulations |-> numSimulations, numSteps |-> numSteps,
                  seed |-> seed]
    /\ lsRng' = [g |-> InitialGenerator(1, seed), d |-> FreshDistribution]
    /\ lsPc' = "paths"
    /\ lsI' = 0
    /\ lsPaths' = <<>>
    /\ lsCashFlows' = <<>>
    /\ lsT' = 0
    /\ lsItm' = <<>>
    /\ lsX' = <<>>
    /\ lsY' = <<>>
    /\ lsMeanY' = Zero
    /\ lsResult' = NoResult("none")
    /\ lsLog' = <<>>

\* paths[i] = generatePath(S0, r, sigma, T)
LSGeneratePath ==
    /\ lsPc = "paths"
    /\ lsI < lsArgs.numSimulations
    /\ LET gp == generatePath(lsArgs.S0, lsArgs.r, lsArgs.sigma,
                              lsArgs.option.maturity_, lsArgs.numSteps, lsRng)
       IN  /\ lsPaths' = Append(lsPaths, gp.path)
           /\ lsRng' = gp.rng
    /\ lsI' = lsI + 1
    /\ UNCHANGED <<lsPc, lsArgs, lsCashFlows, lsT, lsItm, lsX, lsY, lsMeanY,
                   lsResult, lsLog>>

\* cashFlows[i] = option.payoff(paths[i][numSteps_]) for every i, and the
\* backward loop's initialisation.
LSInitCashFlows ==
    /\ lsPc = "paths"
    /\ ~(lsI < lsArgs.numSimulations)
    /\ lsCashFlows' = TerminalPayoffs(lsArgs.option, lsPaths, lsArgs.numSteps)
    /\ lsT' = FirstStep(lsArgs.numSteps)
    /\ lsPc' = "step"
    /\ UNCHANGED <<lsArgs, lsRng, lsPaths, lsI, lsItm, lsX, lsY, lsMeanY,
                   lsResult, lsLog>>

\* Mutant: the backward loop also runs for t = 0.
LSStepBeginAtZero ==
    /\ lsPc = "step"
    /\ lsT >= 0
    /\ lsItm' = <<>>
    /\ lsX' = <<>>
    /\ lsY' = <<>>
    /\ lsI' = 0
    /\ lsPc' = "collect"
    /\ lsLog' = Append(lsLog,
                       [t |-> lsT, before |-> lsCashFlows, itm |-> <<>>,
                        regressed |-> FALSE, meanY |-> NaN,
                        writes |-> [i \in 1 .. Len(lsCashFlows) |-> 0],
                        exercised |-> {}])
    /\ UNCHANGED <<lsArgs, lsRng, lsPaths, lsCashFlows, lsT, lsMeanY, lsResult>>

\* The loop test t > 0 holds: the step's locals are created.
LSStepBegin ==
    /\ lsPc = "step"
    /\ lsT > 0
    /\ lsItm' = <<>>
    /\ lsX' = <<>>
    /\ lsY' = <<>>
    /\ lsI' = 0
    /\ lsPc' = "collect"
    /\ lsLog' = Append(lsLog,
                       [t |-> lsT, before |-> lsCashFlows, itm |-> <<>>,
                        regressed |-> FALSE, meanY |-> NaN,
                        writes |-> [i \in 1 .. Len(lsCashFlows) |-> 0],
                        exercised |-> {}])
    /\ UNCHANGED <<lsArgs, lsRng, lsPaths, lsCashFlows, lsT, lsMeanY, lsResult>>

\* One iteration of the loop that collects the in-the-money paths.
LSCollect ==
    /\ lsPc = "collect"
    /\ lsI < lsArgs.numSimulations
    /\ LET spot          == At(At(lsPaths, lsI), lsT)
           exerciseValue == payoff(lsArgs.option, spot)
       IN  IF FGt(exerciseValue, Zero)
           THEN /\ lsItm' = Append(lsItm, lsI)
                /\ lsX' = Append(lsX, spot)
                /\ lsY' = Append(lsY, FMul(At(lsCashFlows, lsI), LSdiscount))
           ELSE UNCHANGED <<lsItm, lsX, lsY>>
    /\ lsI' = lsI + 1
    /\ UNCHANGED <<lsPc, lsArgs, lsRng, lsPaths, lsCashFlows, lsT, lsMeanY,
                   lsResult, lsLog>>

\* if (itmIndices.size() > 10): the sums and meanY; else the discount loop.
LSBranch ==
    /\ lsPc = "collect"
    /\ ~(lsI < lsArgs.numSimulations)
    /\ lsI' = 0
    /\ IF RegressionRuns(Len(lsItm))
       THEN /\ lsPc' = "decide"
            /\ lsMeanY' = MeanY(lsX, lsY)
            /\ lsLog' = [lsLog EXCEPT ![Len(lsLog)] =
                             [@ EXCEPT !.itm = lsItm, !.regressed = TRUE,
                                       !.meanY = MeanY(lsX, lsY)]]
       ELSE /\ lsPc' = "discountItm"
            /\ lsLog' = [lsLog EXCEPT ![Len(lsLog)] = [@ EXCEPT !.itm = lsItm]]
            /\ UNCHANGED lsMeanY
    /\ UNCHANGED <<lsArgs, lsRng, lsPaths, lsCashFlows, lsT, lsItm, lsX, lsY,
                   lsResult>>

\* cashFlows[i] = value, noted in the step's log.
LSSetCashFlow(i, value, exercise) ==
    /\ lsCashFlows' = [lsCashFlows EXCEPT ![i + 1] = value]
    /\ lsLog' = [lsLog EXCEPT ![Len(lsLog)] =
                     [@ EXCEPT !.writes = [@ EXCEPT ![i + 1] = @ + 1],
                               !.exercised = IF exercise THEN @ \cup {i} ELSE @]]

\* One iteration of the exercise decision loop over itmIndices.
LSDecide ==
    /\ lsPc = "decide"
    /\ lsI < Len(lsItm)
    /\ LET i                 == At(lsItm, lsI)
           spot              == At(At(lsPaths, i), lsT)
           exerciseValue     == payoff(lsArgs.option, spot)
           continuationValue == ContinuationOf(lsMeanY)
       IN  IF FGt(exerciseValue, continuationValue)
           THEN LSSetCashFlow(i, exerciseValue, TRUE)
           ELSE LSSetCashFlow(i, FMul(At(lsCashFlows, i), LSdiscount), FALSE)
    /\ lsI' = lsI + 1
    /\ UNCHANGED <<lsPc, lsArgs, lsRng, lsPaths, lsT, lsItm, lsX, lsY, lsMeanY,
                   lsResult>>

\* Mutant: with too few in-the-money paths they are left as they are.
LSDiscountItmSkips ==
    /\ lsPc = "discountItm"
    /\ lsI < Len(lsItm)
    /\ lsI' = lsI + 1
    /\ UNCHANGED <<lsPc, lsArgs, lsRng, lsPaths, lsCashFlows, lsT, lsItm, lsX,
                   lsY, lsMeanY, lsResult, lsLog>>

\* One iteration of the loop that only discounts the in-the-money paths.
LSDiscountItm ==
    /\ lsPc = "discountItm"
    /\ lsI < Len(lsItm)
    /\ LET i == At(lsItm, lsI)
       IN  LSSetCashFlow(i, FMul(At(lsCashFlows, i), LSdiscount), FALSE)
    /\ lsI' = lsI + 1
    /\ UNCHANGED <<lsPc, lsArgs, lsRng, lsPaths, lsT, lsItm, lsX, lsY, lsMeanY,
                   lsResult>>

\* Either loop over itmIndices has ended.
LSItmDone ==
    /\ lsPc \in {"decide", "discountItm"}
    /\ ~(lsI < Len(lsItm))
    /\ lsPc' = "otm"
    /\ lsI' = 0
    /\ UNCHANGED <<lsArgs, lsRng, lsPaths, lsCashFlows, lsT, lsItm, lsX, lsY,
                   lsMeanY, lsResult, lsLog>>

\* Mutant: the membership test is inverted.
IsITMInverted(itmIndices, i) == ~(\E k \in 1 .. Len(itmIndices) : itmIndices[k] = i)

\* bool isITM: idx == i for some idx in itmIndices
IsITM(itmIndices, i) == \E k \in 1 .. Len(itmIndices) : itmIndices[k] = i

\* One iteration of the loop that discounts the out-of-the-money paths.
LSDiscountOtm ==
    /\ lsPc = "otm"
    /\ lsI < lsArgs.numSimulations
    /\ IF ~IsITM(lsItm, lsI)
       THEN LSSetCashFlow(lsI, FMul(At(lsCashFlows, lsI), LSdiscount), FALSE)
       ELSE UNCHANGED <<lsCashFlows, lsLog>>
    /\ lsI' = lsI + 1
    /\ UNCHANGED <<lsPc, lsArgs, lsRng, lsPaths, lsT, lsItm, lsX, lsY, lsMeanY,
                   lsResult>>

\* The step's body has ended: --t.
LSStepEnd ==
    /\ lsPc = "otm"
    /\ ~(lsI < lsArgs.numSimulations)
    /\ lsT' = lsT - 1
    /\ lsPc' = "step"
    /\ UNCHANGED <<lsArgs, lsRng, lsPaths, lsCashFlows, lsI, lsItm, lsX, lsY,
                   lsMeanY, lsResult, lsLog>>

\* The loop test t > 0 fails: the price, the standard error and the result.
LSFinish ==
    /\ lsPc = "step"
    /\ ~(lsT > 0)
    /\ lsResult' = Statistics(lsCashFlows, LSdiscount, lsArgs.numSimulations)
    /\ lsPc' = "done"
    /\ UNCHANGED <<lsArgs, lsRng, lsPaths, lsCashFlows, lsT, lsI, lsItm, lsX,
                   lsY, lsMeanY, lsLog>>

(***************************************************************************)
(* Volatility predictors (src/src/VolatilityPredictor.cpp)                 *)
(***************************************************************************)
PredictorClasses == {"HistoricalVolatility", "EWMAVolatility", "MLVolatilityPredictor"}

NoPredictor == [cls |-> "none", windowSize_ |-> 0, lambda_ |-> Zero]

NoPredictorCtor == [cls |-> "none", status |-> "none"]

NoPredict == [returns |-> <<>>, status |-> "none", value |-> NaN]

\* sqrt(variance * 252.0)
TradingDays == 252

Annualize(variance) == FSqrt(FMul(variance, Num(TradingDays * Unit)))

\* HistoricalVolatility::HistoricalVolatility throws
HistoricalRejects(windowSize) == windowSize <= 1

\* EWMAVolatility::EWMAVolatility throws
EWMARejects(lambda) == FLe(lambda, Zero) \/ ~FLt(lambda, One)

\* The lambda MLVolatilityPredictor::predict builds its EWMAVolatility with
MLLambda == 940

\* returns.empty()
ReturnsEmpty(returns) == Len(returns) = 0

\* Mutant: an empty sequence is answered with zero volatility.
EmptyReturnsYieldZero(returns) ==
    [returns |-> returns, status |-> "returned", value |-> Zero]

\* throw std::invalid_argument("Returns vector is empty")
EmptyReturnsThrow(returns) ==
    [returns |-> returns, status |-> "invalid_argument", value |-> NaN]

\* for (i = from; i < returns.size(); ++i) sum += returns[i]
RECURSIVE WindowSum(_, _, _)
WindowSum(returns, i, acc) ==
    IF i >= Len(returns) THEN acc
    ELSE WindowSum(returns, i + 1, FAdd(acc, At(returns, i)))

\* for (i = from; i < returns.size(); ++i) variance += (returns[i] - mean)^2
RECURSIVE WindowSquares(_, _, _, _)
WindowSquares(returns, mean, i, acc) ==
    IF i >= Len(returns) THEN acc
    ELSE LET diff == FSub(At(returns, i), mean)
         IN  WindowSquares(returns, mean, i + 1, FAdd(acc, FMul(diff, diff)))

IntMin(a, b) == IF b < a THEN b ELSE a

HistoricalPredict(windowSize, returns) ==
    IF ReturnsEmpty(returns) THEN EmptyReturnsThrow(returns)
    ELSE LET n        == IntMin(windowSize, Len(returns))
             sum      == WindowSum(returns, Len(returns) - n, Zero)
             mean     == FDiv(sum, FromInt(n))
             squares  == WindowSquares(returns, mean, Len(returns) - n, Zero)
             variance == FDiv(squares, FromInt(n - 1))
         IN  [returns |-> returns, status |-> "returned",
              value |-> Annualize(variance)]

\* for (i = 1; i < returns.size(); ++i) variance = lambda*variance + ...
RECURSIVE EWMALoop(_, _, _, _)
EWMALoop(lambda, returns, i, variance) ==
    IF i >= Len(returns) THEN variance
    ELSE EWMALoop(lambda, returns, i + 1,
                  FAdd(FMul(lambda, variance),
                       FMul(FMul(FSub(One, lambda), At(returns, i)),
                            At(returns, i))))

EWMAPredict(lambda, returns) ==
    IF ReturnsEmpty(returns) THEN EmptyReturnsThrow(returns)
    ELSE LET first == FMul(At(returns, 0), At(returns, 0))
         IN  [returns |-> returns, status |-> "returned",
              value |-> Annualize(EWMALoop(lambda, returns, 1, first))]

MLPredict(returns) ==
    IF ReturnsEmpty(returns) THEN EmptyReturnsThrow(returns)
    ELSE EWMAPredict(Num(MLLambda), returns)

\* predictor.predict(returns) through the virtual call
PredictOutcome(obj, returns) ==
    CASE obj.cls = "HistoricalVolatility" -> HistoricalPredict(obj.windowSize_, returns)
      [] obj.cls = "EWMAVolatility" -> EWMAPredict(obj.lambda_, returns)
      [] OTHER -> MLPredict(returns)

HistoricalConstruct(windowSize) ==
    /\ ~HistoricalRejects(windowSize)
    /\ volObj' = [cls |-> "HistoricalVolatility", windowSize_ |-> windowSize,
                   lambda_ |-> Zero]
    /\ volCtor' = [cls |-> "HistoricalVolatility", status |-> "constructed"]
    /\ volCall' = NoPredict

HistoricalConstructThrows(windowSize) ==
    /\ HistoricalRejects(windowSize)
    /\ volObj' = NoPredictor
    /\ volCtor' = [cls |-> "HistoricalVolatility", status |-> "invalid_argument"]
    /\ volCall' = NoPredict

EWMAConstruct(lambda) ==
    /\ ~EWMARejects(lambda)
    /\ volObj' = [cls |-> "EWMAVolatility", windowSize_ |-> 0, lambda_ |-> lambda]
    /\ volCtor' = [cls |-> "EWMAVolatility", status |-> "constructed"]
    /\ volCall' = NoPredict

EWMAConstructThrows(lambda) ==
    /\ EWMARejects(lambda)
    /\ volObj' = NoPredictor
    /\ volCtor' = [cls |-> "EWMAVolatility", status |-> "invalid_argument"]
    /\ volCall' = NoPredict

MLConstruct ==
    /\ volObj' = [cls |-> "MLVolatilityPredictor", windowSize_ |-> 0,
                   lambda_ |-> Zero]
    /\ volCtor' = [cls |-> "MLVolatilityPredictor", status |-> "constructed"]
    /\ volCall' = NoPredict

Predict(returns) ==
    /\ volObj.cls # "none"
    /\ volCall' = PredictOutcome(volObj, returns)
    /\ UNCHANGED <<volObj, volCtor>>

(***************************************************************************)
(* The legacy MonteCarloEngine (src/src/cpp): priceEuropeanOption called    *)
(* from several threads on one engine, one simulated path per step          *)
(***************************************************************************)
Threads == {1, 2}

NoLegacyEngine ==
    [alive |-> FALSE, numSimulations |-> 0, numSteps |-> 0, seed |-> 0,
     rng |-> [g |-> 0, d |-> FreshDistribution]]

IdleThread ==
    [pc |-> "idle", option |-> NoLegacyOption,
     localRng |-> [g |-> 0, d |-> FreshDistribution], i |-> 0,
     finalPrices |-> <<>>, raced |-> FALSE, overlapped |-> FALSE]

\* (double)(numSimulations - 1) on unsigned int: 0u - 1 wraps to 4294967295,
\* a large finite double.
UIntDec(n) == IF n = 0 THEN Num(MaxFix) ELSE FromInt(n - 1)

\* MonteCarloEngine(simulations, steps, seed): no validation
LegacyEngineConstruct(simulations, steps, seed) ==
    /\ \A t \in Threads : lmThread[t].pc = "idle"
    /\ lmEngine' = [alive |-> TRUE, numSimulations |-> simulations,
                     numSteps |-> steps, seed |-> seed,
                     rng |-> [g |-> MtSeed(seed), d |-> FreshDistribution]]
    /\ lmReturned' = {}
    /\ UNCHANGED lmThread

\* A setter writes a field the running calls read without synchronisation:
\* those calls have raced with it.
RacedBySetter ==
    [t \in Threads |->
        IF lmThread[t].pc = "idle" THEN lmThread[t]
        ELSE [lmThread[t] EXCEPT !.raced = TRUE]]

\* void setNumSimulations(unsigned int n) { numSimulations = n; }
LegacySetNumSimulations(n) ==
    /\ lmEngine.alive
    /\ lmEngine' = [lmEngine EXCEPT !.numSimulations = n]
    /\ lmThread' = RacedBySetter
    /\ lmReturned' = {}

\* void setNumSteps(unsigned int n) { numSteps = n; }
LegacySetNumSteps(n) ==
    /\ lmEngine.alive
    /\ lmEngine' = [lmEngine EXCEPT !.numSteps = n]
    /\ lmThread' = RacedBySetter
    /\ lmReturned' = {}

\* std::mt19937 localRng(seed); std::normal_distribution<double> localNormalDist
LegacyLocalRng(seed) == [g |-> MtSeed(seed), d |-> FreshDistribution]

\* Mutant: the local generator is seeded from a source outside the engine.
LegacyCallStartAnySeed(t, option) ==
    /\ lmEngine.alive
    /\ lmThread[t].pc = "idle"
    /\ \E s \in {lmEngine.seed, lmEngine.seed + 1} :
          lmThread' =
            [u \in Threads |->
                IF u = t
                THEN [pc |-> "simulate", option |-> option,
                      localRng |-> LegacyLocalRng(s), i |-> 0,
                      finalPrices |-> <<>>, raced |-> FALSE,
                      overlapped |-> \E v \in Threads \ {t} : lmThread[v].pc # "idle"]
                ELSE IF lmThread[u].pc = "idle" THEN lmThread[u]
                ELSE [lmThread[u] EXCEPT !.overlapped = TRUE]]
    /\ UNCHANGED <<lmEngine, lmReturned>>

\* Thread t enters priceEuropeanOption(option) and simulatePaths(option) up
\* to the path loop.
LegacyCallStart(t, option) ==
    /\ lmEngine.alive
    /\ lmThread[t].pc = "idle"
    /\ lmThread' =
          [u \in Threads |->
              IF u = t
              THEN [pc |-> "simulate", option |-> option,
                    localRng |-> LegacyLocalRng(lmEngine.seed), i |-> 0,
                    finalPrices |-> <<>>, raced |-> FALSE,
                    overlapped |-> \E v \in Threads \ {t} : lmThread[v].pc # "idle"]
              ELSE IF lmThread[u].pc = "idle" THEN lmThread[u]
              ELSE [lmThread[u] EXCEPT !.overlapped = TRUE]]
    /\ UNCHANGED <<lmEngine, lmReturned>>

\* for (j = 0; j < numSteps; ++j) S *= exp((r - 0.5*sigma*sigma)*dt + ...)
RECURSIVE LegacyStepLoop(_, _, _, _, _, _)
LegacyStepLoop(S, j, numSteps, option, dt, rng) ==
    IF ~(j < numSteps) THEN [S |-> S, rng |-> rng]
    ELSE LET dr    == NormalDraw(rng)
             sigma == option.volatility
             drift == FMul(FSub(option.riskFreeRate,
                                FMul(FMul(Half, sigma), sigma)), dt)
             shock == FMul(FMul(sigma, FSqrt(dt)), dr.z)
         IN  LegacyStepLoop(FMul(S, FExp(FAdd(drift, shock))), j + 1, numSteps,
                            option, dt, dr.rng)

\* One iteration of the path loop of simulatePaths, on thread t's locals.
LegacySimulatePath(t) ==
    /\ lmThread[t].pc = "simulate"
    /\ lmThread[t].i < lmEngine.numSimulations
    /\ LET option == lmThread[t].option
           dt     == FDiv(option.timeToMaturity, FromInt(lmEngine.numSteps))
           sl     == LegacyStepLoop(option.spotPrice, 0, lmEngine.numSteps,
                                    option, dt, lmThread[t].localRng)
       IN  lmThread' = [lmThread EXCEPT ![t].finalPrices = Append(@, sl.S),
                                        ![t].localRng = sl.rng,
                                        ![t].i = @ + 1]
    /\ UNCHANGED <<lmEngine, lmReturned>>

\* payoffs[i] from finalPrices[i]
LegacyPayoffs(option, finalPrices) ==
    [i \in 1 .. Len(finalPrices) |->
        IF option.optionType = "call"
        THEN StdMax(FSub(finalPrices[i], option.strikePrice), Zero)
        ELSE StdMax(FSub(option.strikePrice, finalPrices[i]), Zero)]

\* The pair priceEuropeanOption returns from the simulated final prices.
LegacyPair(option, finalPrices, numSimulations) ==
    LET payoffs        == LegacyPayoffs(option, finalPrices)
        sumPayoffs     == Accumulate(payoffs, 1, Zero)
        meanPayoff     == FDiv(sumPayoffs, FromInt(numSimulations))
        discount       == FExp(FMul(FNeg(option.riskFreeRate), option.timeToMaturity))
        sumSquaredDiff == SumSquaredLoop(payoffs, meanPayoff, 1, Zero)
        variance       == FDiv(sumSquaredDiff, UIntDec(numSimulations))
    IN  [price |-> FMul(meanPayoff, discount),
         standardError |->
             FMul(FSqrt(FDiv(variance, FromInt(numSimulations))), discount)]

\* The path loop has ended: payoffs, mean, standard error and the return.
\* What a call that raced with a setter returns is not defined and is not
\* recorded.
LegacyReturn(t) ==
    /\ lmThread[t].pc = "simulate"
    /\ lmThread[t].raced \/ ~(lmThread[t].i < lmEngine.numSimulations)
    /\ IF lmThread[t].raced
       THEN UNCHANGED lmReturned
       ELSE lmReturned' = lmReturned \cup
                {[thread |-> t, option |-> lmThread[t].option,
                  result |-> LegacyPair(lmThread[t].option, lmThread[t].finalPrices,
                                        lmEngine.numSimulations),
                  overlapped |-> lmThread[t].overlapped]}
    /\ lmThread' = [lmThread EXCEPT ![t] = IdleThread]
    /\ UNCHANGED lmEngine

(***************************************************************************)
(* Specifications                                                          *)
(***************************************************************************)
Init ==
    /\ alive = [e \in Engines |-> FALSE]
    /\ numSimulations_ = [e \in Engines |-> 0]
    /\ numSteps_ = [e \in Engines |-> 0]
    /\ seed_ = [e \in Engines |-> 0]
    /\ generator_ = [e \in Engines |-> 0]
    /\ distribution_ = [e \in Engines |-> FreshDistribution]
    /\ ctor = [e \in Engines |-> NoEngineCtor]
    /\ touched = [e \in Engines |-> FALSE]
    /\ callCount = [e \in Engines |-> 0]
    /\ last = [e \in Engines |-> NoCall]
    /\ prev = [e \in Engines |-> NoCall]
    /\ bsCtor = NoCtor
    /\ ivPc = "idle"
    /\ ivArgs = NoArgs
    /\ ivI = 0
    /\ ivSigma = Num(SigmaInit)
    /\ ivOutcome = NoOutcome
    /\ ivTrace = <<>>
    /\ optObj = [o \in OptSlots |-> NoOption]
    /\ optCtor = [o \in OptSlots |-> NoOptionCtor]
    /\ optPayoff = [o \in OptSlots |-> NoPayoff]
    /\ LSInit
    /\ lgObj = [o \in LegacySlots |-> NoLegacyOption]
    /\ lgCtor = [o \in LegacySlots |-> NoLegacyCtor]
    /\ volObj = NoPredictor
    /\ volCtor = NoPredictorCtor
    /\ volCall = NoPredict
    /\ lmEngine = NoLegacyEngine
    /\ lmThread = [t \in Threads |-> IdleThread]
    /\ lmReturned = {}

\* One engine: construction, setters and any number of price() calls.
EngineConstruct ==
    \E n \in SimCounts, m \in StepCounts, seed \in Seeds :
        Construct(1, n, m, seed) /\ UNCHANGED <<bsCtor, ivVars, optVars, lsVars, lgVars, volVars, lmVars>>

EngineConstructThrows ==
    \E n \in SimCounts, m \in StepCounts, seed \in Seeds :
        ConstructThrows(1, n, m, seed) /\ UNCHANGED <<bsCtor, ivVars, optVars, lsVars, lgVars, volVars, lmVars>>

EngineSetNumSimulations ==
    \E n \in SimCounts : setNumSimulations(1, n) /\ UNCHANGED <<bsCtor, ivVars, optVars, lsVars, lgVars, volVars, lmVars>>

EngineSetNumSteps ==
    \E n \in StepCounts : setNumSteps(1, n) /\ UNCHANGED <<bsCtor, ivVars, optVars, lsVars, lgVars, volVars, lmVars>>

EnginePrice ==
    \E a \in MCArgs :
        Price(1, a[1], a[2], a[3], a[4]) /\ UNCHANGED <<bsCtor, ivVars, optVars, lsVars, lgVars, volVars, lmVars>>

Next ==
    \/ EngineConstruct
    \/ EngineConstructThrows
    \/ EngineSetNumSimulations
    \/ EngineSetNumSteps
    \/ EnginePrice

Spec == Init /\ [][Next]_vars

\* Two engines, each constructed and asked to price at most MaxCalls times.
ReproSims == {2, 12}

ReproSteps == {2}

ReproArgs ==
    {<<EuropeanOption(MCStrike, MCMaturity, "PUT"), Num(800), Num(50), Num(200)>>,
     <<AmericanOption(MCStrike, MCMaturity, "PUT"), Num(800), Num(50), Num(200)>>,
     <<AmericanOption(MCStrike, MCMaturity, "CALL"), Num(1200), Num(50), Num(200)>>}

ReproConstruct ==
    \E e \in Engines, n \in ReproSims, m \in ReproSteps, seed \in Seeds :
        Construct(e, n, m, seed) /\ UNCHANGED <<bsCtor, ivVars, optVars, lsVars, lgVars, volVars, lmVars>>

ReproPrice ==
    \E e \in Engines, a \in ReproArgs :
        Price(e, a[1], a[2], a[3], a[4]) /\ UNCHANGED <<bsCtor, ivVars, optVars, lsVars, lgVars, volVars, lmVars>>

NextRepro == ReproConstruct \/ ReproPrice

SpecRepro == Init /\ [][NextRepro]_vars

\* One impliedVolatility call at a time, run to its return or exception.
IVStart ==
    \E marketPrice \in IVMarketPrices, S \in IVSpots, K \in IVStrikes,
       r \in IVRates, T \in IVMaturities, type \in OptionType,
       tolerance \in IVTolerances, maxIterations \in IVMaxIterations :
        IVCall(marketPrice, S, K, r, T, type, tolerance, maxIterations)

NextIV ==
    \/ IVStart /\ UNCHANGED <<engineVars, bsCtor, optVars, lsVars, lgVars, volVars, lmVars>>
    \/ IVExhausted /\ UNCHANGED <<engineVars, bsCtor, optVars, lsVars, lgVars, volVars, lmVars>>
    \/ IVCtorThrows /\ UNCHANGED <<engineVars, bsCtor, optVars, lsVars, lgVars, volVars, lmVars>>
    \/ IVReturn /\ UNCHANGED <<engineVars, bsCtor, optVars, lsVars, lgVars, volVars, lmVars>>
    \/ IVVegaThrows /\ UNCHANGED <<engineVars, bsCtor, optVars, lsVars, lgVars, volVars, lmVars>>
    \/ IVUpdate /\ UNCHANGED <<engineVars, bsCtor, optVars, lsVars, lgVars, volVars, lmVars>>

SpecIV == Init /\ [][NextIV]_vars

\* BlackScholes objects constructed from arbitrary arguments.
BSConstruct ==
    \E S \in BSCtorValues, K \in BSCtorValues, r \in BSCtorValues,
       T \in BSCtorValues, sigma \in BSCtorValues :
        BSConstructOk(S, K, r, T, sigma)

BSConstructFails ==
    \E S \in BSCtorValues, K \in BSCtorValues, r \in BSCtorValues,
       T \in BSCtorValues, sigma \in BSCtorValues :
        BSConstructThrows(S, K, r, T, sigma)

NextBS ==
    \/ BSConstruct /\ UNCHANGED <<engineVars, ivVars, optVars, lsVars, lgVars, volVars, lmVars>>
    \/ BSConstructFails /\ UNCHANGED <<engineVars, ivVars, optVars, lsVars, lgVars, volVars, lmVars>>

SpecBS == Init /\ [][NextBS]_vars

\* Option objects constructed from arbitrary arguments and asked for payoffs.
OptConstruct ==
    \E o \in OptSlots, cls \in OptClasses, strike \in OptStrikes,
       maturity \in OptMaturities, type \in OptionType :
        OptionConstruct(o, cls, strike, maturity, type)

OptConstructThrows ==
    \E o \in OptSlots, cls \in OptClasses, strike \in OptStrikes,
       maturity \in OptMaturities, type \in OptionType :
        OptionConstructThrows(o, cls, strike, maturity, type)

OptPayoff == \E o \in OptSlots, spot \in OptSpots : OptionPayoff(o, spot)

NextOpt ==
    \/ OptConstruct /\ UNCHANGED <<engineVars, bsCtor, ivVars, lsVars, lgVars, volVars, lmVars>>
    \/ OptConstructThrows /\ UNCHANGED <<engineVars, bsCtor, ivVars, lsVars, lgVars, volVars, lmVars>>
    \/ OptPayoff /\ UNCHANGED <<engineVars, bsCtor, ivVars, lsVars, lgVars, volVars, lmVars>>

SpecOpt == Init /\ [][NextOpt]_vars

\* One American valuation at a time, run to its result.
LSStrike == Num(1000)

LSMaturity == Num(1000)

\* <<option, S0, r, sigma, numSimulations, numSteps, seed>>
LSInputs ==
    {<<AmericanOption(LSStrike, LSMaturity, "PUT"), Num(800), Num(50), Num(200), 11, 2, 42>>,
     <<AmericanOption(LSStrike, LSMaturity, "PUT"), Num(800), Num(50), Num(200), 10, 2, 42>>,
     <<AmericanOption(LSStrike, LSMaturity, "PUT"), Num(950), Num(50), Num(200), 17, 2, 123>>,
     <<AmericanOption(LSStrike, LSMaturity, "CALL"), Num(800), Num(50), Num(200), 12, 2, 42>>,
     <<AmericanOption(LSStrike, LSMaturity, "PUT"), Num(800), Num(50), Num(200), 12, 3, 42>>,
     <<AmericanOption(LSStrike, LSMaturity, "PUT"), Num(800), Num(50), Num(200), 2, 1, 42>>,
     <<AmericanOption(LSStrike, LSMaturity, "PUT"), Num(950), Num(50), Num(200), 12, 1, 123>>,
     <<AmericanOption(LSStrike, LSMaturity, "PUT"), NaN, Num(50), Num(200), 2, 2, 42>>}

LSStart ==
    \E a \in LSInputs : LSCall(a[1], a[2], a[3], a[4], a[5], a[6], a[7])

NextLS ==
    \/ LSStart /\ UNCHANGED <<engineVars, bsCtor, ivVars, optVars, lgVars, volVars, lmVars>>
    \/ LSGeneratePath /\ UNCHANGED <<engineVars, bsCtor, ivVars, optVars, lgVars, volVars, lmVars>>
    \/ LSInitCashFlows /\ UNCHANGED <<engineVars, bsCtor, ivVars, optVars, lgVars, volVars, lmVars>>
    \/ LSStepBegin /\ UNCHANGED <<engineVars, bsCtor, ivVars, optVars, lgVars, volVars, lmVars>>
    \/ LSCollect /\ UNCHANGED <<engineVars, bsCtor, ivVars, optVars, lgVars, volVars, lmVars>>
    \/ LSBranch /\ UNCHANGED <<engineVars, bsCtor, ivVars, optVars, lgVars, volVars, lmVars>>
    \/ LSDecide /\ UNCHANGED <<engineVars, bsCtor, ivVars, optVars, lgVars, volVars, lmVars>>
    \/ LSDiscountItm /\ UNCHANGED <<engineVars, bsCtor, ivVars, optVars, lgVars, volVars, lmVars>>
    \/ LSItmDone /\ UNCHANGED <<engineVars, bsCtor, ivVars, optVars, lgVars, volVars, lmVars>>
    \/ LSDiscountOtm /\ UNCHANGED <<engineVars, bsCtor, ivVars, optVars, lgVars, volVars, lmVars>>
    \/ LSStepEnd /\ UNCHANGED <<engineVars, bsCtor, ivVars, optVars, lgVars, volVars, lmVars>>
    \/ LSFinish /\ UNCHANGED <<engineVars, bsCtor, ivVars, optVars, lgVars, volVars, lmVars>>

SpecLS == Init /\ [][NextLS]_vars

\* The step-wise run returns what priceAmerican computes in one go.
LSMatchesPriceAmerican ==
    lsPc = "done" =>
        lsResult = priceAmerican(lsArgs.option, lsArgs.S0, lsArgs.r, lsArgs.sigma,
                                 lsArgs.numSimulations, lsArgs.numSteps,
                                 [g |-> InitialGenerator(1, lsArgs.seed),
                                  d |-> FreshDistribution]).result

\* Analytic pricers, current and legacy, constructed from the same inputs.
\* <<S, K, r, T, sigma>>
ParityInputs ==
    {<<Num(1000), Num(1000), Num(50), Num(1000), Num(200)>>,
     <<Num(1200), Num(1000), Num(50), Num(1000), Num(200)>>,
     <<Num(800), Num(1000), Num(-50), Num(2000), Num(500)>>,
     <<Num(100000), Num(100000), Num(50), Num(1000), Num(200)>>,
     <<Num(1000), Num(1000), Zero, Num(1), Num(1)>>,
     <<Num(1000), Num(1000), Zero, Num(1000), Zero>>,
     <<Num(1000), Num(1000), Zero, Zero, Num(200)>>,
     <<Num(1000), Num(1000), Num(50), Num(1000), Num(-200)>>}

ParityBS ==
    \E a \in ParityInputs : BSConstructOk(a[1], a[2], a[3], a[4], a[5])

ParityBSFails ==
    \E a \in ParityInputs : BSConstructThrows(a[1], a[2], a[3], a[4], a[5])

ParityLegacy ==
    \E o \in LegacySlots, a \in ParityInputs, type \in LegacyTypeStrings :
        LegacyConstruct(o, a[1], a[2], a[3], a[5], a[4], type)

ParityLegacyFails ==
    \E o \in LegacySlots, a \in ParityInputs, type \in LegacyTypeStrings :
        LegacyConstructThrows(o, a[1], a[2], a[3], a[5], a[4], type)

NextParity ==
    \/ ParityBS /\ UNCHANGED <<engineVars, ivVars, optVars, lsVars, lgVars, volVars, lmVars>>
    \/ ParityBSFails /\ UNCHANGED <<engineVars, ivVars, optVars, lsVars, lgVars, volVars, lmVars>>
    \/ ParityLegacy /\ UNCHANGED <<engineVars, bsCtor, ivVars, optVars, lsVars, volVars, lmVars>>
    \/ ParityLegacyFails /\ UNCHANGED <<engineVars, bsCtor, ivVars, optVars, lsVars, volVars, lmVars>>

SpecParity == Init /\ [][NextParity]_vars

\* The implied-volatility round trip: the market price is the analytic
\* price at a known sigma, tolerance and maxIterations are left to default.
\* The default tolerance 1e-6 lies below the fixed-point resolution.
IVDefaultTolerance == 2

\* The default budget of 100 iterations, cut to the largest budget explored.
IVDefaultIterations == MaxIter

\* <<S, K, r, T>>
RoundTripMarkets ==
    {<<Num(1000), Num(1000), Num(50), Num(1000)>>,
     <<Num(1200), Num(1000), Num(50), Num(1000)>>,
     <<Num(1000), Num(1000), Zero, Num(250)>>,
     <<Num(800), Num(1000), Num(50), Num(1000)>>,
     <<Num(1000), Num(2000), Num(50), Num(100)>>}

RoundTripSigmas == {Num(50), Num(200), Num(500), Num(1000)}

RoundTripStart ==
    \E a \in RoundTripMarkets, sigma \in RoundTripSigmas, type \in OptionType :
        IVCall(price(BlackScholes(a[1], a[2], a[3], a[4], sigma), type),
               a[1], a[2], a[3], a[4], type,
               Num(IVDefaultTolerance), IVDefaultIterations)

NextRoundTrip ==
    \/ RoundTripStart /\ UNCHANGED <<engineVars, bsCtor, optVars, lsVars, lgVars, volVars, lmVars>>
    \/ IVExhausted /\ UNCHANGED <<engineVars, bsCtor, optVars, lsVars, lgVars, volVars, lmVars>>
    \/ IVReturn /\ UNCHANGED <<engineVars, bsCtor, optVars, lsVars, lgVars, volVars, lmVars>>
    \/ IVVegaThrows /\ UNCHANGED <<engineVars, bsCtor, optVars, lsVars, lgVars, volVars, lmVars>>
    \/ IVUpdate /\ UNCHANGED <<engineVars, bsCtor, optVars, lsVars, lgVars, volVars, lmVars>>

SpecRoundTrip == Init /\ [][NextRoundTrip]_vars

\* Volatility predictors over short return sequences.
MaxReturns == 3

ReturnValues == {Num(-200), Zero, Num(100)}

ReturnSeqs == UNION {[1 .. n -> ReturnValues] : n \in 0 .. MaxReturns}

WindowSizes == {-1, 1, 2, 3}

Lambdas == {Zero, Num(500), Num(940), One, NaN}

VolPredict ==
    \E returns \in ReturnSeqs : Predict(returns)

NextVol ==
    \/ (\E w \in WindowSizes : HistoricalConstruct(w))
         /\ UNCHANGED <<engineVars, bsCtor, ivVars, optVars, lsVars, lgVars, lmVars>>
    \/ (\E w \in WindowSizes : HistoricalConstructThrows(w))
         /\ UNCHANGED <<engineVars, bsCtor, ivVars, optVars, lsVars, lgVars, lmVars>>
    \/ (\E l \in Lambdas : EWMAConstruct(l))
         /\ UNCHANGED <<engineVars, bsCtor, ivVars, optVars, lsVars, lgVars, lmVars>>
    \/ (\E l \in Lambdas : EWMAConstructThrows(l))
         /\ UNCHANGED <<engineVars, bsCtor, ivVars, optVars, lsVars, lgVars, lmVars>>
    \/ MLConstruct /\ UNCHANGED <<engineVars, bsCtor, ivVars, optVars, lsVars, lgVars, lmVars>>
    \/ VolPredict /\ UNCHANGED <<engineVars, bsCtor, ivVars, optVars, lsVars, lgVars, lmVars>>

SpecVol == Init /\ [][NextVol]_vars

\* One legacy option: construction and the two setters.
LegacySetterSlots == {1}

LegacySetterValues == {Num(-200), Zero, Num(300), NaN}

LegacyCtor ==
    \E o \in LegacySetterSlots, a \in ParityInputs, type \in LegacyTypeStrings :
        LegacyConstruct(o, a[1], a[2], a[3], a[5], a[4], type)

LegacyCtorThrows ==
    \E o \in LegacySetterSlots, a \in ParityInputs, type \in LegacyTypeStrings :
        LegacyConstructThrows(o, a[1], a[2], a[3], a[5], a[4], type)

LegacySetVolatility ==
    \E o \in LegacySetterSlots, sigma \in LegacySetterValues : setVolatility(o, sigma)

LegacySetSpotPrice ==
    \E o \in LegacySetterSlots, S \in LegacySetterValues : setSpotPrice(o, S)

NextLegacy ==
    \/ LegacyCtor
         /\ UNCHANGED <<engineVars, bsCtor, ivVars, optVars, lsVars, volVars, lmVars>>
    \/ LegacyCtorThrows
         /\ UNCHANGED <<engineVars, bsCtor, ivVars, optVars, lsVars, volVars, lmVars>>
    \/ LegacySetVolatility
         /\ UNCHANGED <<engineVars, bsCtor, ivVars, optVars, lsVars, volVars, lmVars>>
    \/ LegacySetSpotPrice
         /\ UNCHANGED <<engineVars, bsCtor, ivVars, optVars, lsVars, volVars, lmVars>>

SpecLegacy == Init /\ [][NextLegacy]_vars

\* One legacy engine priced from two threads.
LegacySimCounts == {0, 2}

LegacyStepCounts == {1, 2}

LegacyMCOptions ==
    {LegacyEuropeanOption(One, One, Num(50), Num(200), One, "call"),
     LegacyEuropeanOption(One, One, Num(50), Num(200), One, "put")}

LegacyMCConstruct ==
    \E n \in LegacySimCounts, m \in LegacyStepCounts, seed \in Seeds :
        LegacyEngineConstruct(n, m, seed)

LegacyMCSetNumSimulations == \E n \in LegacySimCounts : LegacySetNumSimulations(n)

LegacyMCSetNumSteps == \E m \in LegacyStepCounts : LegacySetNumSteps(m)

LegacyMCCall ==
    \E t \in Threads, option \in LegacyMCOptions : LegacyCallStart(t, option)

LegacyMCSimulate == \E t \in Threads : LegacySimulatePath(t)

LegacyMCReturn == \E t \in Threads : LegacyReturn(t)

NextLegacyMC ==
    \/ LegacyMCConstruct
         /\ UNCHANGED <<engineVars, bsCtor, ivVars, optVars, lsVars, lgVars, volVars>>
    \/ LegacyMCSetNumSimulations
         /\ UNCHANGED <<engineVars, bsCtor, ivVars, optVars, lsVars, lgVars, volVars>>
    \/ LegacyMCSetNumSteps
         /\ UNCHANGED <<engineVars, bsCtor, ivVars, optVars, lsVars, lgVars, volVars>>
    \/ LegacyMCCall
         /\ UNCHANGED <<engineVars, bsCtor, ivVars, optVars, lsVars, lgVars, volVars>>
    \/ LegacyMCSimulate
         /\ UNCHANGED <<engineVars, bsCtor, ivVars, optVars, lsVars, lgVars, volVars>>
    \/ LegacyMCReturn
         /\ UNCHANGED <<engineVars, bsCtor, ivVars, optVars, lsVars, lgVars, volVars>>

SpecLegacyMC == Init /\ [][NextLegacyMC]_vars

(***************************************************************************)
(* Claims                                                                  *)
(***************************************************************************)
RealCall(c) == c.result.kind # "none"

\* C1: two freshly constructed engines with the same (numSimulations,
\* numSteps, seed), each asked once to price the same option with the same
\* (S0, r, sigma), return identical MCResult values, for European and for
\* American valuation.
C1_FreshEnginesAgree ==
    \A e1 \in Engines, e2 \in Engines :
        (/\ alive[e1] /\ alive[e2]
         /\ ~touched[e1] /\ ~touched[e2]
         /\ ctor[e1].args = ctor[e2].args
         /\ callCount[e1] = 1 /\ callCount[e2] = 1
         /\ last[e1].args = last[e2].args)
        => last[e1].result = last[e2].result

\* Two fresh engines of 12 paths and 2 steps have each priced the same
\* American put once and hold a finite, positive price.
C1_Witness ==
    /\ alive[1] /\ alive[2]
    /\ ctor[1].args = ctor[2].args
    /\ ctor[1].args[1] = 12
    /\ callCount[1] = 1 /\ callCount[2] = 1
    /\ last[1].args = last[2].args
    /\ last[1].args[1].style_ = "AMERICAN"
    /\ last[1].result.kind = "result"
    /\ last[2].result.kind = "result"
    /\ FGt(last[2].result.price, Zero)
    /\ FGt(last[2].result.standardError, Zero)

\* C2: the MCResult of price() depends only on its arguments and the
\* engine's (numSimulations, numSteps, seed), not on earlier price() calls:
\* two calls in a row on one engine with identical arguments return
\* identical results.
C2_RepeatedCallsAgree ==
    \A e \in Engines :
        (/\ alive[e]
         /\ RealCall(prev[e]) /\ RealCall(last[e])
         /\ prev[e].args = last[e].args)
        => prev[e].result = last[e].result

\* The sigma an iteration evaluated meets the tolerance, computed from the
\* Black-Scholes price at exactly that sigma.
WithinTolerance(sigma) ==
    FLt(FAbs(FSub(price(BlackScholes(ivArgs.S, ivArgs.K, ivArgs.r, ivArgs.T, sigma),
                        ivArgs.type),
                  ivArgs.marketPrice)),
        ivArgs.tolerance)

VegaAt(sigma) ==
    vega(BlackScholes(ivArgs.S, ivArgs.K, ivArgs.r, ivArgs.T, sigma))

Max0(n) == IF n < 0 THEN 0 ELSE n

\* C3: impliedVolatility returns sigma only if the Black-Scholes price at
\* exactly that sigma is within the tolerance of the market price; in every
\* other case the call ends with an exception.
C3_ReturnsOnlyConverged ==
    /\ ivOutcome.kind = "return" => (ivPc = "done" /\ WithinTolerance(ivOutcome.value))
    /\ ivPc = "done" =>
          ivOutcome.kind \in {"return", "invalid_argument", "vega_too_small",
                              "did_not_converge"}
    /\ ivOutcome.kind # "return" => ivOutcome.value = NaN

\* The search has returned a sigma it reached by at least one Newton update.
C3_Witness ==
    /\ ivPc = "done"
    /\ ivOutcome.kind = "return"
    /\ Len(ivTrace) >= 2
    /\ ivOutcome.value # Num(SigmaInit)

\* C4: the loop runs at most maxIterations iterations; when none of the
\* maxIterations iterates meets the tolerance and every vega is >= 1e-10 the
\* call fails with "did not converge" after exactly maxIterations price
\* evaluations, and with maxIterations <= 0 it fails so without any.
C4_BoundedIterations ==
    /\ Len(ivTrace) <= Max0(ivArgs.maxIterations)
    /\ ivI <= Max0(ivArgs.maxIterations)
    /\ (ivPc = "done" /\ ivArgs.maxIterations <= 0)
          => (ivOutcome.kind = "did_not_converge" /\ Len(ivTrace) = 0)
    /\ (/\ ivPc = "done"
        /\ Len(ivTrace) = Max0(ivArgs.maxIterations)
        /\ \A k \in 1 .. Len(ivTrace) :
              /\ ~WithinTolerance(ivTrace[k].sigma)
              /\ FLe(Num(VegaEps), VegaAt(ivTrace[k].sigma)))
          => ivOutcome.kind = "did_not_converge"
    /\ ivOutcome.kind = "did_not_converge"
          => Len(ivTrace) = Max0(ivArgs.maxIterations)

\* A call with a budget of at least three iterations used all of them.
C4_Witness ==
    /\ ivPc = "done"
    /\ ivOutcome.kind = "did_not_converge"
    /\ ivArgs.maxIterations >= 3
    /\ Len(ivTrace) = ivArgs.maxIterations

\* C5: the call fails with "vega too small" exactly when it reaches an
\* iterate that fails the tolerance test and has vega < 1e-10, at that
\* iteration and with no further update; an iterate that meets the
\* tolerance is returned whatever its vega.
C5_VegaFailure ==
    /\ \A k \in 1 .. Len(ivTrace) :
          LET sigma == ivTrace[k].sigma
          IN  /\ (~WithinTolerance(sigma) /\ FLt(VegaAt(sigma), Num(VegaEps)))
                    => (/\ k = Len(ivTrace)
                        /\ ivPc = "done"
                        /\ ivOutcome.kind = "vega_too_small"
                        /\ ivSigma = sigma
                        /\ ivI = k - 1)
              /\ WithinTolerance(sigma)
                    => (/\ k = Len(ivTrace)
                        /\ ivPc = "done"
                        /\ ivOutcome = [kind |-> "return", value |-> sigma])
    /\ ivOutcome.kind = "vega_too_small"
          => (/\ Len(ivTrace) > 0
              /\ ~WithinTolerance(ivTrace[Len(ivTrace)].sigma)
              /\ FLt(VegaAt(ivTrace[Len(ivTrace)].sigma), Num(VegaEps)))

\* The search failed on vega at an iterate reached by a Newton update.
C5_Witness ==
    /\ ivPc = "done"
    /\ ivOutcome.kind = "vega_too_small"
    /\ Len(ivTrace) >= 2

InSigmaRange(sigma) == FLe(Num(SigmaLo), sigma) /\ FLe(sigma, Num(SigmaHi))

\* C6: every sigma at which price and vega are evaluated, the sigma the next
\* iteration will use and any returned volatility lie in [0.001, 5.0].
C6_SigmaInRange ==
    /\ \A k \in 1 .. Len(ivTrace) : InSigmaRange(ivTrace[k].sigma)
    /\ InSigmaRange(ivSigma)
    /\ ivOutcome.kind = "return" => InSigmaRange(ivOutcome.value)

\* A Newton update left the range and the clamped bound was evaluated.
C6_Witness ==
    \E k \in 2 .. Len(ivTrace) :
        ivTrace[k].sigma \in {Num(SigmaLo), Num(SigmaHi)}

\* C7: constructing BlackScholes(S, K, r, T, sigma) throws invalid_argument
\* if and only if S <= 0 or K <= 0 or T <= 0 or sigma <= 0; the rate is free.
C7_BlackScholesValidation ==
    bsCtor.status # "none" =>
        /\ bsCtor.status \in {"constructed", "invalid_argument"}
        /\ bsCtor.status = "invalid_argument"
              <=> \/ FLe(bsCtor.args[1], Zero)
                  \/ FLe(bsCtor.args[2], Zero)
                  \/ FLe(bsCtor.args[4], Zero)
                  \/ FLe(bsCtor.args[5], Zero)

\* A BlackScholes object was constructed with a negative rate.
C7_Witness ==
    /\ bsCtor.status = "constructed"
    /\ FLt(bsCtor.args[3], Zero)

\* C8: constructing MonteCarloEngine(numSimulations, numSteps, seed) throws
\* invalid_argument if and only if numSimulations <= 0 or numSteps <= 0; on
\* success the getters return the constructor arguments.
C8_EngineValidation ==
    \A e \in Engines :
        ctor[e].status # "none" =>
            /\ ctor[e].status = "invalid_argument"
                  <=> (ctor[e].args[1] <= 0 \/ ctor[e].args[2] <= 0)
            /\ ctor[e].status = "invalid_argument" => ~alive[e]
            /\ ctor[e].status = "constructed" => alive[e]
            /\ (alive[e] /\ ~touched[e]) =>
                  /\ getNumSimulations(e) = ctor[e].args[1]
                  /\ getNumSteps(e) = ctor[e].args[2]

\* An engine constructed with (2, 1, seed) answers its getters.
C8_Witness ==
    /\ alive[1]
    /\ ~touched[1]
    /\ ctor[1].args[1] = 2
    /\ ctor[1].args[2] = 1
    /\ getNumSimulations(1) = 2
    /\ getNumSteps(1) = 1

\* C9: price(option, S0, r, sigma) with S0 <= 0 or sigma <= 0 is rejected
\* with an invalid-parameter error and never produces an MCResult.
C9_PriceRejectsNonPositive ==
    \A e \in Engines :
        (/\ RealCall(last[e])
         /\ (FLe(last[e].args[2], Zero) \/ FLe(last[e].args[4], Zero)))
        => last[e].result.kind = "invalid_argument"

\* C10: in every state reached by construction, setters and price calls,
\* numSimulations >= 1 and numSteps >= 1, and every MCResult reports
\* numSimulations >= 1.
C10_CountsStayPositive ==
    \A e \in Engines :
        alive[e] =>
            /\ numSimulations_[e] >= 1
            /\ numSteps_[e] >= 1
            /\ last[e].result.kind = "result" => last[e].result.numSimulations >= 1

\* C11: constructing a EuropeanOption or an AmericanOption throws
\* invalid_argument if and only if strike <= 0 or maturity <= 0; on success
\* getStrike(), getMaturity() and getType() return the constructor arguments,
\* and go on returning them however many payoffs the object is asked for.
C11_OptionValidation ==
    \A o \in OptSlots :
        optCtor[o].status # "none" =>
            /\ optCtor[o].status \in {"constructed", "invalid_argument"}
            /\ optCtor[o].status = "invalid_argument"
                  <=> (FLe(optCtor[o].args[1], Zero) \/ FLe(optCtor[o].args[2], Zero))
            /\ optCtor[o].status = "invalid_argument" => optObj[o].cls = "none"
            /\ optCtor[o].status = "constructed" =>
                  /\ optObj[o].cls = optCtor[o].cls
                  /\ getStrike(o) = optCtor[o].args[1]
                  /\ getMaturity(o) = optCtor[o].args[2]
                  /\ getType(o) = optCtor[o].args[3]

\* An American put constructed with (1.2, 1.0, PUT) has been asked for a
\* payoff and still answers its getters with the constructor arguments.
C11_Witness ==
    /\ optCtor[1].status = "constructed"
    /\ optCtor[1].cls = "AmericanOption"
    /\ optCtor[1].args = <<Num(1200), Num(1000), "PUT">>
    /\ optPayoff[1].called
    /\ getStrike(1) = Num(1200)
    /\ getMaturity(1) = Num(1000)
    /\ getType(1) = "PUT"

\* max(s - K, 0) and max(K - s, 0) on the integers behind two finite doubles
IntrinsicValue(type, K, s) ==
    IF type = "CALL" THEN Num(Max0(s.v - K.v)) ELSE Num(Max0(K.v - s.v))

\* C12: payoff(s) is max(s - K, 0) for a call and max(K - s, 0) for a put,
\* never negative, and an AmericanOption and a EuropeanOption of the same
\* strike and type give the same payoff at the same spot.
C12_Payoff ==
    /\ \A o \in OptSlots :
          optPayoff[o].called =>
              /\ optPayoff[o].value =
                    IntrinsicValue(getType(o), getStrike(o), optPayoff[o].spot)
              /\ FLe(Zero, optPayoff[o].value)
              /\ optPayoff[o].spot = getStrike(o) => optPayoff[o].value = Zero
    /\ \A o1 \in OptSlots, o2 \in OptSlots :
          (/\ optPayoff[o1].called /\ optPayoff[o2].called
           /\ getStrike(o1) = getStrike(o2)
           /\ getType(o1) = getType(o2)
           /\ optPayoff[o1].spot = optPayoff[o2].spot)
          => optPayoff[o1].value = optPayoff[o2].value

\* A European and an American put of strike 1.0 were both asked for the
\* payoff at spot 0.7 and both answered 0.3.
C12_Witness ==
    /\ optObj[1].cls = "EuropeanOption"
    /\ optObj[2].cls = "AmericanOption"
    /\ getType(1) = "PUT" /\ getType(2) = "PUT"
    /\ getStrike(1) = Num(1000) /\ getStrike(2) = Num(1000)
    /\ optPayoff[1].called /\ optPayoff[2].called
    /\ optPayoff[1].spot = Num(700) /\ optPayoff[2].spot = Num(700)
    /\ optPayoff[1].value = Num(300)
    /\ optPayoff[2].value = Num(300)

\* The two bounds are the price minus and plus 1.96 standard errors.
BoundsFromPrice(res) ==
    /\ res.confidence95Lower = FSub(res.price, FMul(Num(1960), res.standardError))
    /\ res.confidence95Upper = FAdd(res.price, FMul(Num(1960), res.standardError))

ValidCall(c) ==
    /\ ~OptionRejects(c.args[1].strike_, c.args[1].maturity_)
    /\ FGt(c.args[2], Zero) /\ IsNum(c.args[2])
    /\ IsNum(c.args[3])
    /\ FGt(c.args[4], Zero) /\ IsNum(c.args[4])

\* C19: on an engine with numSimulations >= 1 and numSteps >= 1, price() with
\* a valid option and valid market inputs returns an MCResult whose price,
\* standard error and confidence bounds are all well defined numbers; no
\* division by zero occurs.  (Stated for spots far from the overflow of a
\* double.)
C19_Total ==
    \A e \in Engines :
        (/\ alive[e]
         /\ numSimulations_[e] >= 1
         /\ numSteps_[e] >= 1
         /\ RealCall(last[e])
         /\ ValidCall(last[e])
         /\ last[e].args[2] # Num(HugeSpot))
        => /\ last[e].result.kind = "result"
           /\ IsNum(last[e].result.price)
           /\ IsNum(last[e].result.standardError)
           /\ IsNum(last[e].result.confidence95Lower)
           /\ IsNum(last[e].result.confidence95Upper)

\* Backward step number k of the running valuation has made its exercise
\* decisions, and has ended.
StepDecided(k) == k < Len(lsLog) \/ lsPc \in {"otm", "step", "done"}

StepComplete(k) == k < Len(lsLog) \/ lsPc \in {"step", "done"}

\* The cash flows step k left behind.
AfterOf(k) == IF k < Len(lsLog) THEN lsLog[k + 1].before ELSE lsCashFlows

\* The in-the-money paths of step k (C++ indices) and their spots.
ItmSet(k) == {lsLog[k].itm[j] : j \in 1 .. Len(lsLog[k].itm)}

SpotAt(k, i) == At(At(lsPaths, i), lsLog[k].t)

ExerciseValueAt(k, i) == payoff(lsArgs.option, SpotAt(k, i))

\* Y of path i at step k: its cash flow before the step, discounted once.
YAt(k, i) == FMul(At(lsLog[k].before, i), LSdiscount)

RECURSIVE SumOver(_, _)
SumOver(S, f) ==
    IF S = {} THEN 0
    ELSE LET x == CHOOSE y \in S : TRUE IN f[x] + SumOver(S \ {x}, f)

\* When the in-the-money spots of step k take at most three distinct values
\* the least-squares parabola over (1, S, S^2) passes through the mean of Y at
\* each of them: the fitted prediction at path i's spot is the mean of Y over
\* the in-the-money paths that share its spot.
FitInterpolates(k) == Cardinality({SpotAt(k, i) : i \in ItmSet(k)}) <= 3

SameSpot(k, i) == {j \in ItmSet(k) : SpotAt(k, j) = SpotAt(k, i)}

\* exercise value > fitted prediction, compared exactly
ExceedsFit(k, i) ==
    ExerciseValueAt(k, i).v * Cardinality(SameSpot(k, i))
        > SumOver(SameSpot(k, i), [j \in SameSpot(k, i) |-> YAt(k, j).v])

\* C14: at a step where the regression runs, an in-the-money path is
\* exercised (its cash flow set to its exercise payoff) if and only if that
\* payoff strictly exceeds the fitted prediction of the degree-2 least-squares
\* regression at the path's own spot; otherwise its cash flow is discounted by
\* one step.
C14_ExerciseAgainstFit ==
    \A k \in 1 .. Len(lsLog) :
        (StepDecided(k) /\ lsLog[k].regressed /\ FitInterpolates(k)) =>
            \A i \in ItmSet(k) :
                /\ i \in lsLog[k].exercised <=> ExceedsFit(k, i)
                /\ StepComplete(k) =>
                      At(AfterOf(k), i) =
                          IF ExceedsFit(k, i) THEN ExerciseValueAt(k, i)
                          ELSE YAt(k, i)

\* The cash flows step k leaves when it only discounts.
DiscountedOnly(k) ==
    \A i \in 0 .. (lsArgs.numSimulations - 1) :
        At(AfterOf(k), i) = FMul(At(lsLog[k].before, i), LSdiscount)

\* C15: exercise decisions are made at step t if and only if more than 10
\* paths are in the money at t; with 10 or fewer the regression is skipped, no
\* path is exercised and every cash flow is only discounted by one step.
C15_Threshold ==
    \A k \in 1 .. Len(lsLog) :
        StepDecided(k) =>
            /\ lsLog[k].regressed <=> Len(lsLog[k].itm) > 10
            /\ ~lsLog[k].regressed =>
                  /\ lsLog[k].exercised = {}
                  /\ StepComplete(k) => DiscountedOnly(k)
            /\ lsLog[k].regressed =>
                  \A i \in ItmSet(k) :
                      i \in lsLog[k].exercised
                          <=> FGt(ExerciseValueAt(k, i), lsLog[k].meanY)

\* A finished step found exactly 10 paths in the money, some of them with an
\* exercise payoff above the mean of Y, and exercised none.
C15_Witness ==
    /\ lsPc = "done"
    /\ Len(lsLog) = 1
    /\ Len(lsLog[1].itm) = 10
    /\ ~lsLog[1].regressed
    /\ \E i \in ItmSet(1) :
          FGt(ExerciseValueAt(1, i), MeanY(lsX, lsY)) /\ FGt(MeanY(lsX, lsY), Zero)
    /\ lsLog[1].exercised = {}

\* C16 as stated: a backward step at which no path is in the money leaves
\* every path's cash flow unchanged.
C16_ZeroItmNoOp ==
    \A k \in 1 .. Len(lsLog) :
        (StepComplete(k) /\ Len(lsLog[k].itm) = 0) => AfterOf(k) = lsLog[k].before

\* C16 as amended: a backward step at which no path is in the money runs no
\* regression and exercises no path; it multiplies every path's cash flow by
\* the one-step discount, once.
C16_ZeroItmDiscountsOnly ==
    \A k \in 1 .. Len(lsLog) :
        (StepComplete(k) /\ Len(lsLog[k].itm) = 0) =>
            /\ ~lsLog[k].regressed
            /\ lsLog[k].exercised = {}
            /\ DiscountedOnly(k)
            /\ \A i \in 1 .. lsArgs.numSimulations : lsLog[k].writes[i] = 1

\* A finished step had no path in the money and lowered a positive cash flow.
C16_Witness ==
    /\ lsPc = "done"
    /\ Len(lsLog) = 1
    /\ Len(lsLog[1].itm) = 0
    /\ \E i \in 0 .. (lsArgs.numSimulations - 1) :
          /\ FGt(At(lsLog[1].before, i), Zero)
          /\ FLt(At(lsCashFlows, i), At(lsLog[1].before, i))

\* The in-the-money paths at step t, in the order the collecting loop meets
\* them, among the first n paths.
RECURSIVE ItmUpTo(_, _)
ItmUpTo(n, t) ==
    IF n = 0 THEN <<>>
    ELSE IF FGt(payoff(lsArgs.option, At(At(lsPaths, n - 1), t)), Zero)
         THEN Append(ItmUpTo(n - 1, t), n - 1)
         ELSE ItmUpTo(n - 1, t)

\* C17: all N paths are generated before the backward pass; the steps are
\* processed in the order t = M-1, M-2, ..., 1, each exactly once; within a
\* step the in-the-money set and the regression inputs are collected from the
\* cash flows the previous step left, before any cash flow is modified.
C17_SequentialSteps ==
    /\ lsPc = "paths" => (lsLog = <<>> /\ lsCashFlows = <<>> /\ Len(lsPaths) = lsI)
    /\ lsPc \in {"step", "collect", "decide", "discountItm", "otm", "done"} =>
          /\ Len(lsPaths) = lsArgs.numSimulations
          /\ Len(lsCashFlows) = lsArgs.numSimulations
    /\ \A k \in 1 .. Len(lsLog) : lsLog[k].t = lsArgs.numSteps - k
    /\ Len(lsLog) <= Max0(lsArgs.numSteps - 1)
    /\ lsPc = "done" => Len(lsLog) = Max0(lsArgs.numSteps - 1)
    /\ lsPc \in {"collect", "decide", "discountItm", "otm"} =>
          /\ Len(lsLog) > 0
          /\ lsLog[Len(lsLog)].t = lsT
    /\ Len(lsLog) > 0 =>
          lsLog[1].before = TerminalPayoffs(lsArgs.option, lsPaths, lsArgs.numSteps)
    /\ lsPc = "collect" =>
          /\ lsCashFlows = lsLog[Len(lsLog)].before
          /\ lsItm = ItmUpTo(lsI, lsT)
    /\ lsPc \in {"decide", "discountItm", "otm"} =>
          LET k == Len(lsLog)
          IN  /\ lsItm = ItmUpTo(lsArgs.numSimulations, lsT)
              /\ lsLog[k].itm = lsItm
              /\ Len(lsX) = Len(lsItm) /\ Len(lsY) = Len(lsItm)
              /\ \A j \in 1 .. Len(lsItm) :
                    /\ lsX[j] = SpotAt(k, lsItm[j])
                    /\ lsY[j] = YAt(k, lsItm[j])
              /\ lsLog[k].regressed => lsLog[k].meanY = MeanY(lsX, lsY)

\* The second of two backward steps is deciding, after a first step that
\* exercised paths: its inputs were read from the cash flows that step left.
C17_Witness ==
    /\ lsPc = "decide"
    /\ lsArgs.numSteps = 3
    /\ Len(lsLog) = 2
    /\ lsT = 1
    /\ lsLog[1].exercised # {}
    /\ lsLog[2].before # lsLog[1].before
    /\ lsI > 0

\* The earliest step at which path i was exercised, or numSteps if none.
RECURSIVE EarliestExercise(_, _)
EarliestExercise(i, k) ==
    IF k = 0 THEN lsArgs.numSteps
    ELSE IF i \in lsLog[k].exercised THEN lsLog[k].t
    ELSE EarliestExercise(i, k - 1)

RECURSIVE DiscountTimes(_, _)
DiscountTimes(x, n) == IF n <= 0 THEN x ELSE DiscountTimes(FMul(x, LSdiscount), n - 1)

\* C18: with one-step discount d, the cash flow a path ends with is
\* payoff(path[tau]) * d^(tau - 1), tau being the earliest step at which the
\* path was exercised, or M if it never was, and the price is d times the
\* average of the cash flows: each path contributes payoff(path[tau]) * d^tau.
C18_Contributions ==
    lsPc = "done" =>
        /\ \A i \in 0 .. (lsArgs.numSimulations - 1) :
              LET tau == EarliestExercise(i, Len(lsLog))
              IN  At(lsCashFlows, i) =
                      DiscountTimes(payoff(lsArgs.option, At(At(lsPaths, i), tau)), tau - 1)
        /\ lsResult.price =
              FMul(LSdiscount,
                   FDiv(Accumulate(lsCashFlows, 1, Zero), FromInt(lsArgs.numSimulations)))

\* A valuation with three steps ended with a path exercised at step 1, a path
\* exercised at step 2 and held at step 1, and a path never exercised early,
\* each with a positive cash flow.
C18_Witness ==
    /\ lsPc = "done"
    /\ lsArgs.numSteps = 3
    /\ \E i \in 0 .. (lsArgs.numSimulations - 1) :
          EarliestExercise(i, Len(lsLog)) = 1 /\ FGt(At(lsCashFlows, i), Zero)
    /\ \E i \in 0 .. (lsArgs.numSimulations - 1) :
          EarliestExercise(i, Len(lsLog)) = 2 /\ FGt(At(lsCashFlows, i), Zero)
    /\ \E i \in 0 .. (lsArgs.numSimulations - 1) :
          EarliestExercise(i, Len(lsLog)) = 3 /\ FGt(At(lsCashFlows, i), Zero)
    /\ FGt(lsResult.price, Zero)

\* S, K, T and sigma are finite and strictly positive and r is finite.
ValidMarket(S, K, r, T, sigma) ==
    /\ IsNum(S) /\ FGt(S, Zero)
    /\ IsNum(K) /\ FGt(K, Zero)
    /\ IsNum(r)
    /\ IsNum(T) /\ FGt(T, Zero)
    /\ IsNum(sigma) /\ FGt(sigma, Zero)

\* S - K*e^(-rT)
ParityRhs(S, K, r, T) == FSub(S, FMul(K, FExp(FMul(FNeg(r), T))))

\* The tolerances 1e-8 and 1e-6 lie below the fixed-point resolution; the
\* comparison allows what the arithmetic itself rounds away: two units, and
\* one unit in the last place of S + K*e^(-rT).
ParitySlack(S, K, r, T) ==
    Num(2 + (S.v + FMul(K, FExp(FMul(FNeg(r), T))).v) \div Unit)

ParityHolds(call, put, S, K, r, T) ==
    FLe(FAbs(FSub(FSub(call, put), ParityRhs(S, K, r, T))), ParitySlack(S, K, r, T))

\* C20: for all valid (S, K, r, T, sigma), callPrice() - putPrice() of
\* BlackScholes equals S - K*e^(-rT) within the tolerance, and so does the
\* difference of the legacy calculatePrice() of a call and of a put.
C20_PutCallParity ==
    /\ (/\ bsCtor.status = "constructed"
         /\ ValidMarket(bsCtor.args[1], bsCtor.args[2], bsCtor.args[3],
                        bsCtor.args[4], bsCtor.args[5]))
        => LET bs == BlackScholes(bsCtor.args[1], bsCtor.args[2], bsCtor.args[3],
                                  bsCtor.args[4], bsCtor.args[5])
           IN  ParityHolds(callPrice(bs), putPrice(bs), bs.S_, bs.K_, bs.r_, bs.T_)
    /\ \A c \in LegacySlots, p \in LegacySlots :
          (/\ lgObj[c].cls # "none" /\ lgObj[p].cls # "none"
           /\ lgObj[c].optionType = "call" /\ lgObj[p].optionType = "put"
           /\ [lgObj[c] EXCEPT !.optionType = "put"] = lgObj[p]
           /\ ValidMarket(lgObj[c].spotPrice, lgObj[c].strikePrice,
                          lgObj[c].riskFreeRate, lgObj[c].timeToMaturity,
                          lgObj[c].volatility))
          => ParityHolds(calculatePrice(lgObj[c]), calculatePrice(lgObj[p]),
                         lgObj[c].spotPrice, lgObj[c].strikePrice,
                         lgObj[c].riskFreeRate, lgObj[c].timeToMaturity)

\* 1e-4 lies below the fixed-point resolution; the comparison allows what
\* the tolerance on the price leaves undetermined at that resolution.
RoundTripSlack == 20

\* The running or finished call is a round trip from sigma.
RoundTripFrom(sigma) ==
    /\ ivArgs.tolerance = Num(IVDefaultTolerance)
    /\ ivArgs.maxIterations = IVDefaultIterations
    /\ ValidMarket(ivArgs.S, ivArgs.K, ivArgs.r, ivArgs.T, sigma)
    /\ ivArgs.marketPrice =
           price(BlackScholes(ivArgs.S, ivArgs.K, ivArgs.r, ivArgs.T, sigma),
                 ivArgs.type)

\* C21: impliedVolatility applied to the analytic price at sigma, with the
\* default tolerance and budget, returns a value within 1e-4 of sigma, for
\* every valid market and sigma in [0.05, 1.0].  A call that runs out of the
\* explored budget is left aside: the default budget is larger.
C21_RoundTrip ==
    \A sigma \in RoundTripSigmas :
        (/\ ivPc = "done"
         /\ RoundTripFrom(sigma)
         /\ ivOutcome.kind # "did_not_converge")
        => /\ ivOutcome.kind = "return"
           /\ FLe(FAbs(FSub(ivOutcome.value, sigma)), Num(RoundTripSlack))

\* C23: predict on an empty returns sequence throws invalid_argument and
\* returns no value, whichever predictor class the object has.
C23_EmptyReturnsRejected ==
    (volCall.status # "none" /\ Len(volCall.returns) = 0)
    => /\ volObj.cls \in PredictorClasses
       /\ volCall.status = "invalid_argument"
       /\ IsNaN(volCall.value)

\* The placeholder ML predictor was handed an empty sequence and threw.
C23_Witness ==
    /\ volObj.cls = "MLVolatilityPredictor"
    /\ volCall.status = "invalid_argument"
    /\ volCall.returns = <<>>

\* C24: every legacy option that exists has spot, strike, volatility and
\* maturity strictly positive, whatever setVolatility and setSpotPrice calls
\* followed its construction, and a construction with any of them not
\* strictly positive is rejected with invalid_argument.
C24_LegacyPositive ==
    \A o \in LegacySlots :
        /\ lgObj[o].cls # "none"
            => /\ FGt(lgObj[o].spotPrice, Zero)
               /\ FGt(lgObj[o].strikePrice, Zero)
               /\ FGt(lgObj[o].volatility, Zero)
               /\ FGt(lgObj[o].timeToMaturity, Zero)
        /\ (/\ lgCtor[o].status # "none"
             /\ \/ ~FGt(lgCtor[o].args[1], Zero)
                \/ ~FGt(lgCtor[o].args[2], Zero)
                \/ ~FGt(lgCtor[o].args[4], Zero)
                \/ ~FGt(lgCtor[o].args[5], Zero))
            => lgCtor[o].status = "invalid_argument"

\* The C++ indices of the paths.
PathIndices == 0 .. (lsArgs.numSimulations - 1)

\* C25: within one backward step every path's cash flow is written exactly
\* once: replaced by the exercise value, which happens only to an
\* in-the-money path at a step where the regression runs, or multiplied by
\* the one-step discount; while the step runs no path is written twice.
C25_UpdatedExactlyOnce ==
    \A k \in 1 .. Len(lsLog) :
        /\ \A i \in PathIndices : lsLog[k].writes[i + 1] <= 1
        /\ lsLog[k].exercised # {} => lsLog[k].regressed
        /\ lsLog[k].exercised \subseteq ItmSet(k)
        /\ StepComplete(k) =>
              \A i \in PathIndices :
                  /\ lsLog[k].writes[i + 1] = 1
                  /\ At(AfterOf(k), i) =
                        IF i \in lsLog[k].exercised
                        THEN ExerciseValueAt(k, i)
                        ELSE FMul(At(lsLog[k].before, i), LSdiscount)

\* A finished step exercised some in-the-money path, held another and
\* discounted an out-of-the-money one, each written once.
C25_Witness ==
    /\ lsPc = "done"
    /\ \E k \in 1 .. Len(lsLog) :
          /\ lsLog[k].regressed
          /\ lsLog[k].exercised # {}
          /\ ItmSet(k) \ lsLog[k].exercised # {}
          /\ PathIndices \ ItmSet(k) # {}
          /\ \A i \in PathIndices : lsLog[k].writes[i + 1] = 1

\* Y of step k as the collecting loop built it, and the spots all replaced
\* by zero.
YOf(k) == [j \in 1 .. Len(lsLog[k].itm) |-> YAt(k, lsLog[k].itm[j])]

XOf(k) == [j \in 1 .. Len(lsLog[k].itm) |-> SpotAt(k, lsLog[k].itm[j])]

XZeroed(k) == [j \in 1 .. Len(lsLog[k].itm) |-> Zero]

\* C26: at a step where the regression runs, the continuation value every
\* in-the-money path's payoff is compared with is one number, the arithmetic
\* mean of the discounted cash flows of the in-the-money paths; the sums
\* accumulated from the spots change neither it nor any decision.
C26_ContinuationIsMean ==
    \A k \in 1 .. Len(lsLog) :
        (StepDecided(k) /\ lsLog[k].regressed) =>
            /\ lsLog[k].meanY =
                   FDiv(Accumulate(YOf(k), 1, Zero), FromInt(Len(lsLog[k].itm)))
            /\ MeanY(XZeroed(k), YOf(k)) = MeanY(XOf(k), YOf(k))
            /\ \A i \in ItmSet(k) :
                  /\ i \in lsLog[k].exercised
                        <=> FGt(ExerciseValueAt(k, i), lsLog[k].meanY)
                  /\ StepComplete(k) =>
                        At(AfterOf(k), i) =
                            IF FGt(ExerciseValueAt(k, i), lsLog[k].meanY)
                            THEN ExerciseValueAt(k, i)
                            ELSE YAt(k, i)

\* A decided step with a positive mean compared it with the payoffs of
\* in-the-money paths at different spots, exercising one and holding another.
C26_Witness ==
    \E k \in 1 .. Len(lsLog) :
        /\ StepComplete(k)
        /\ lsLog[k].regressed
        /\ FGt(lsLog[k].meanY, Zero)
        /\ \E i \in lsLog[k].exercised, j \in ItmSet(k) \ lsLog[k].exercised :
              SpotAt(k, i) # SpotAt(k, j)

\* C27: the legacy priceEuropeanOption draws from a generator built from the
\* engine's seed at every call and leaves the engine's rng member as the
\* constructor set it, so all calls on one engine with the same option that
\* returned since the settings last changed, whether one after another or
\* overlapping on different threads, returned the same (price, standardError).
C27_LegacyCallsAgree ==
    /\ lmEngine.alive => lmEngine.rng = LegacyLocalRng(lmEngine.seed)
    /\ \A a \in lmReturned, b \in lmReturned :
          a.option = b.option => a.result = b.result

\* Two calls with the same option overlapped on different threads and both
\* returned, with a positive standard error.
C27_Witness ==
    \E a \in lmReturned, b \in lmReturned :
        /\ a.thread # b.thread
        /\ a.option = b.option
        /\ a.overlapped /\ b.overlapped
        /\ FGt(a.result.standardError, Zero)

\* The generator and distribution a freshly constructed engine e starts with.
FreshRng(e) == [g |-> InitialGenerator(e, ctor[e].args[3]), d |-> FreshDistribution]

\* What the valuation belonging to the option's class returns on the freshly
\* constructed engine e for the arguments of its latest call.
ValuationOfClass(e) ==
    LET a == last[e].args
    IN  IF a[1].cls = "EuropeanOption"
        THEN priceEuropean(a[1], a[2], a[3], a[4], ctor[e].args[1],
                           ctor[e].args[2], FreshRng(e)).result
        ELSE priceAmerican(a[1], a[2], a[3], a[4], ctor[e].args[1],
                           ctor[e].args[2], FreshRng(e)).result

\* The other valuation on the same engine and arguments.
ValuationOfOtherClass(e) ==
    LET a == last[e].args
    IN  IF a[1].cls = "EuropeanOption"
        THEN priceAmerican(a[1], a[2], a[3], a[4], ctor[e].args[1],
                           ctor[e].args[2], FreshRng(e)).result
        ELSE priceEuropean(a[1], a[2], a[3], a[4], ctor[e].args[1],
                           ctor[e].args[2], FreshRng(e)).result

\* C28: the style tag of the option handed to price() agrees with its class,
\* EUROPEAN for EuropeanOption and AMERICAN for AmericanOption; the cast in
\* price() never fails, and price() returns what the European valuation
\* returns for a EuropeanOption and what the Longstaff-Schwartz valuation
\* returns for an AmericanOption.
C28_StyleMatchesClass ==
    \A e \in Engines :
        (alive[e] /\ RealCall(last[e])) =>
            LET option == last[e].args[1]
            IN  /\ option.cls = "EuropeanOption" <=> option.style_ = "EUROPEAN"
                /\ option.cls = "AmericanOption" <=> option.style_ = "AMERICAN"
                /\ last[e].result.kind # "bad_cast"
                /\ callCount[e] = 1 => last[e].result = ValuationOfClass(e)

\* A fresh engine of 12 paths priced an American put once; the result is
\* the Longstaff-Schwartz one and differs from the European valuation of the
\* same arguments.
C28_Witness ==
    \E e \in Engines :
        /\ alive[e]
        /\ callCount[e] = 1
        /\ ctor[e].args[1] = 12
        /\ last[e].args[1].cls = "AmericanOption"
        /\ last[e].args[1].style_ = "AMERICAN"
        /\ last[e].result.kind = "result"
        /\ last[e].result = ValuationOfClass(e)
        /\ last[e].result # ValuationOfOtherClass(e)

\* What a fresh engine with the same seed, numSimulations and numSteps
\* returns for the European option with the strike, maturity and type of the
\* American option being valued, at the same S0, r and sigma.
EuropeanTwin ==
    priceEuropean(EuropeanOption(lsArgs.option.strike_, lsArgs.option.maturity_,
                                 lsArgs.option.type_),
                  lsArgs.S0, lsArgs.r, lsArgs.sigma, lsArgs.numSimulations,
                  lsArgs.numSteps,
                  [g |-> InitialGenerator(1, lsArgs.seed), d |-> FreshDistribution])

\* C29: with numSteps = 1 the backward loop of the American valuation runs
\* no iteration, and the American option gets the price, standard error and
\* confidence bounds of the European option with the same strike, maturity
\* and type on a fresh engine with the same seed and settings.
C29_OneStepIsEuropean ==
    (lsPc # "idle" /\ lsArgs.numSteps = 1) =>
        /\ lsLog = <<>>
        /\ lsPc \in {"paths", "step", "done"}
        /\ lsPc = "done" =>
              /\ lsResult = EuropeanTwin.result
              /\ lsRng = EuropeanTwin.rng

\* A one-step American put on 12 paths, some in and some out of the money
\* at maturity, finished with a positive price.
C29_Witness ==
    /\ lsPc = "done"
    /\ lsArgs.numSteps = 1
    /\ lsArgs.numSimulations = 12
    /\ lsResult.kind = "result"
    /\ FGt(lsResult.price, Zero)
    /\ \E i \in PathIndices, j \in PathIndices :
          FGt(At(lsCashFlows, i), Zero) /\ At(lsCashFlows, j) = Zero

\* C30: from the initialisation of the cash flows to the end of the American
\* valuation every path's cash flow is >= 0, every exercise value written is
\* > 0, and the returned price is >= 0.
C30_CashFlowsNonNegative ==
    /\ lsPc \notin {"idle", "paths"} =>
          \A i \in 1 .. Len(lsCashFlows) : FLe(Zero, lsCashFlows[i])
    /\ \A k \in 1 .. Len(lsLog) :
          \A i \in lsLog[k].exercised : FGt(ExerciseValueAt(k, i), Zero)
    /\ lsPc = "done" => FLe(Zero, lsResult.price)

=============================================================================
